---- MODULE Spec2Model ----
(***************************************************************************)
(* TermDock: the session/transfer orchestration layer.                     *)
(*                                                                         *)
(*   Spec      TerminalService connection lifecycle (main process):        *)
(*             connect / close, the ssh2 client's ready / error / close    *)
(*             events, the shell callback and the system-ssh fallback.     *)
(*   SpecQueue the renderer's bounded upload queue (drainUploadQueue).     *)
(*   SpecXfer  uploadFile / downloadFile / cancel in TerminalService.      *)
(*                                                                         *)
(* Every handler runs to its next await in one step (single-threaded event *)
(* loop); an await is a step boundary.  The sender (WebContents) is taken  *)
(* to be alive, so emit() always sends.  `output` events are not logged.   *)
(***************************************************************************)
EXTENDS Integers, Sequences, FiniteSets, TLC

VARIABLES
  connections,  \* TerminalService.connections: tabId -> connection id, or None
  conns,        \* the TerminalConnection objects that can still receive an event, by id
  nextConn,     \* the id of the next connection object
  calls,        \* every connect() invocation, with its position
  log,          \* per tab, the terminal events sent to the renderer, in order
  uploadQueue,        \* uploadQueueRef.current
  runningUploadIds,   \* runningUploadIdsRef.current
  connectedTabIds,    \* connectedTabIdsRef.current
  terminalTabs,       \* terminalTabs: the ids of the renderer's open tabs
  closedTabs,         \* the ids of tabs that were removed (an id is never reused)
  uploadJobs,         \* every PendingUploadJob ever created, with its position
  activeUploadTransfers,    \* TerminalService.activeUploadTransfers
  activeDownloadTransfers,  \* TerminalService.activeDownloadTransfers
  xfers,              \* every uploadFile/downloadFile invocation, with its position
  sftpCalls,          \* every listDirectory/createDirectory/... invocation, with its position
  listing,            \* a listDirectory invocation: the server's answers and its result
  reconnectAttempts,  \* reconnectAttemptsRef.current: tabId -> attempt number (0: no entry)
  reconnectTimers,    \* reconnectTimersRef.current: tabId -> delay of the pending timer (0: no entry)
  workspaceTabs,      \* the tabs of the terminal workspace (tabsByIdRef, terminalRefs)
  autoReconnect,      \* connectionPreferences.autoReconnect
  connectPhase,       \* per tab, where its terminalApi.connect attempt stands
  scheduled,          \* per tab, the delays scheduled since the last `connected` status
  delayPreference,    \* connectionPreferences.reconnectDelaySeconds
  ioCalls,            \* every write/resize invocation, with what it found and sent
  files,              \* the regular files of the local and of the remote file system
  copy,               \* the uploadFile or downloadFile invocation whose pipe is open
  trips,              \* the settled uploadFile and downloadFile invocations, in order
  ensuredRemoteDirectories,  \* ensuredRemoteDirectoriesRef: per tab, the paths ensured
  remoteDirectories,  \* the directories that exist on the server
  ensureJobs,         \* the ensureRemoteDirectoryForUpload invocations
  createCalls         \* every createDirectory invocation, with its outcome

connVars == <<connections, conns, nextConn, calls, log>>
queueVars == <<uploadQueue, runningUploadIds, connectedTabIds, terminalTabs, closedTabs, uploadJobs>>
xferVars == <<activeUploadTransfers, activeDownloadTransfers, xfers>>
sftpVars == <<sftpCalls, listing>>
reconnectVars ==
  <<reconnectAttempts, reconnectTimers, workspaceTabs, autoReconnect, connectPhase, scheduled,
    delayPreference>>
ioVars == <<ioCalls>>
tripVars == <<files, copy, trips>>
ensureVars == <<ensuredRemoteDirectories, remoteDirectories, ensureJobs, createCalls>>
vars == <<connVars, queueVars, xferVars, sftpVars, reconnectVars, ioVars, tripVars, ensureVars>>

None == 0

\* No listDirectory invocation.
NoListing ==
  [cwd |-> <<>>, rows |-> <<>>, done |-> FALSE, parentIsNull |-> FALSE, parent |-> <<>>,
   entries |-> <<>>]

\* DEFAULT_CONNECTION_PREFERENCES.reconnectDelaySeconds
reconnectDelaySeconds == 3

\* No file in either file system, no pipe open, no transfer settled.
Absent == [exists |-> FALSE, bytes |-> <<>>]

NoCopy == [open |-> FALSE]

\* No directory ensured or created, no invocation.
NoEnsure ==
  /\ ensuredRemoteDirectories = [t \in {"t1", "t2"} |-> {}]
  /\ remoteDirectories = {}
  /\ ensureJobs = <<>>
  /\ createCalls = <<>>

NoTrip ==
  /\ files = [local |-> <<>>, remote |-> <<>>]
  /\ copy = NoCopy
  /\ trips = <<>>

Tabs == {"t1", "t2"}

\* Bound: connect() invocations in one behaviour.
MaxCalls == 2
\* Bound: error events one transport (ssh2 client or ssh process) reports.
MaxErrors == 1

(***************************************************************************)
(* Sessions.  A tab is opened for one session and always connects with     *)
(* that session's id; the session may have been removed from the store by  *)
(* the time getById reads it.                                              *)
(***************************************************************************)
TabSession(tabId) == IF tabId = "t1" THEN "key" ELSE "pw"

\* null, as a record, so that it compares with session records.
NoSession == [id |-> "null", authType |-> "null", privateKeyPath |-> FALSE]

SessionRecord(sessionId) ==
  IF sessionId = "key"
    THEN [id |-> "key", authType |-> "privateKey", privateKeyPath |-> TRUE]
    ELSE [id |-> "pw", authType |-> "password", privateKeyPath |-> FALSE]

getById(sessionId, stored) ==
  IF stored THEN SessionRecord(sessionId) ELSE NoSession

\* error.message of a client error, by whether the fallback regex matches it.
ErrorMessages == {"connection reset before handshake", "authentication failed"}

MatchesHandshakeFailure(message) == message = "connection reset before handshake"

(***************************************************************************)
(* Events and the state the handlers work on.                              *)
(***************************************************************************)
\* The state after construction: no connection, no tab, no transfer.
Init ==
  /\ connections = [t \in Tabs |-> None]
  /\ conns = <<>>
  /\ nextConn = 1
  /\ calls = <<>>
  /\ log = [t \in Tabs |-> <<>>]
  /\ uploadQueue = <<>>
  /\ runningUploadIds = {}
  /\ connectedTabIds = {}
  /\ terminalTabs = {}
  /\ closedTabs = {}
  /\ uploadJobs = <<>>
  /\ activeUploadTransfers = <<>>
  /\ activeDownloadTransfers = <<>>
  /\ xfers = <<>>
  /\ sftpCalls = <<>>
  /\ listing = NoListing
  /\ reconnectAttempts = [t \in Tabs |-> 0]
  /\ reconnectTimers = [t \in Tabs |-> 0]
  /\ workspaceTabs = {}
  /\ autoReconnect = TRUE
  /\ connectPhase = [t \in Tabs |-> "idle"]
  /\ scheduled = [t \in Tabs |-> <<>>]
  /\ delayPreference = reconnectDelaySeconds
  /\ ioCalls = <<>>
  /\ NoTrip
  /\ NoEnsure

ConnState == [reg |-> connections, cs |-> conns, lg |-> log, next |-> nextConn]

Event(type, c, k) == [type |-> type, conn |-> c, call |-> k]

emit(st, tabId, event) ==
  [st EXCEPT !.lg[tabId] = Append(@, event)]

emitClosed(st, c) ==
  IF st.cs[c].closed
    THEN st
    ELSE emit([st EXCEPT !.cs[c].closed = TRUE], st.cs[c].tab,
              Event("closed", c, st.cs[c].call))

\* shell?.end(): a shell whose close handler is installed will report close.
EndShell(shell) == IF shell = "open" THEN "ending" ELSE shell

\* close() that leaves the entry registered and sends `closed` itself.
closeKeepsEntry(st, tabId) ==
  IF st.reg[tabId] = None
    THEN st
    ELSE LET c == st.reg[tabId]
             s1 == [st EXCEPT !.cs[c].shell = EndShell(@),
                              !.cs[c].ended = TRUE]
         IN  emit(s1, tabId, Event("closed", c, st.cs[c].call))

close(st, tabId) ==
  IF st.reg[tabId] = None
    THEN st
    ELSE LET c == st.reg[tabId]
             s1 == [st EXCEPT !.reg[tabId] = None,
                              !.cs[c].shell = EndShell(@),
                              !.cs[c].ended = TRUE]
         IN  emitClosed(s1, c)

NewSsh2Connection(tabId, session, k) ==
  [tab |-> tabId, mode |-> "ssh2", sess |-> session, call |-> k,
   closed |-> FALSE, fallbackTried |-> FALSE,
   ready |-> FALSE, shell |-> "none", ended |-> FALSE, tclosed |-> FALSE,
   errors |-> 0, exit |-> "none", sftp |-> FALSE]

NewNativeConnection(tabId, session, k) ==
  [tab |-> tabId, mode |-> "native", sess |-> session, call |-> k,
   closed |-> FALSE, fallbackTried |-> FALSE,
   ready |-> FALSE, shell |-> "none", ended |-> FALSE, tclosed |-> FALSE,
   errors |-> 0, exit |-> "none", sftp |-> FALSE]

Registered(st, c) == st.reg[st.cs[c].tab] = c

\* A connection object that no handler can act on any more: it is not in the
\* registry, its transport has closed and no shell callback is outstanding.
Collectable(st, c) ==
  /\ ~Registered(st, c)
  /\ st.cs[c].tclosed
  /\ st.cs[c].shell \notin {"pending", "open", "ending"}

Install(st) ==
  /\ connections' = st.reg
  /\ conns' = [c \in {x \in DOMAIN st.cs : ~Collectable(st, x)} |-> st.cs[c]]
  /\ nextConn' = st.next
  /\ log' = st.lg

(***************************************************************************)
(* connect(tabId, sessionId): close, await, getById, await, emit           *)
(* connecting, connectViaSsh2: buildConnectConfig, await, register.        *)
(***************************************************************************)
ConnectCall(tabId, sessionId) ==
  /\ Len(calls) < MaxCalls
  /\ Install(close(ConnState, tabId))
  /\ calls' = Append(calls, [tab |-> tabId, sid |-> sessionId, pc |-> "getById"])
  /\ UNCHANGED <<queueVars, xferVars, sftpVars, reconnectVars, ioVars, tripVars, ensureVars>>

ConnectGetById(k, stored) ==
  /\ calls[k].pc = "getById"
  /\ LET session == getById(calls[k].sid, stored)
     IN  IF session = NoSession
           THEN /\ calls' = [calls EXCEPT ![k].pc = "rejected"]
                /\ UNCHANGED <<connections, conns, nextConn, log>>
           ELSE /\ calls' = [calls EXCEPT ![k].pc = "buildConnectConfig"]
                /\ Install(emit(ConnState, calls[k].tab, Event("connecting", None, k)))
  /\ UNCHANGED <<queueVars, xferVars, sftpVars, reconnectVars, ioVars, tripVars, ensureVars>>

\* buildConnectConfig throws when the secret or the key file is missing.
connectViaSsh2(st, k, configOk) ==
  IF ~configOk
    THEN st
    ELSE LET c == st.next
         IN  [st EXCEPT !.cs = @ @@ (c :> NewSsh2Connection(calls[k].tab, SessionRecord(calls[k].sid), k)),
                        !.reg[calls[k].tab] = c,
                        !.next = c + 1]

ConnectBuildConfig(k, configOk) ==
  /\ calls[k].pc = "buildConnectConfig"
  /\ Install(connectViaSsh2(ConnState, k, configOk))
  /\ calls' = [calls EXCEPT ![k].pc = IF configOk THEN "resolved" ELSE "rejected"]
  /\ UNCHANGED <<queueVars, xferVars, sftpVars, reconnectVars, ioVars, tripVars, ensureVars>>

Close(tabId) ==
  /\ Install(close(ConnState, tabId))
  /\ UNCHANGED <<calls, queueVars, xferVars, sftpVars, reconnectVars, ioVars, tripVars, ensureVars>>

(***************************************************************************)
(* Events of the ssh2 client of connection c (handlers of connectViaSsh2). *)
(***************************************************************************)
\* client.on("ready"): opens the shell unless the connection is stale.
onReady(st, c) ==
  LET s1 == [st EXCEPT !.cs[c].ready = TRUE]
  IN  IF ~Registered(s1, c) \/ s1.cs[c].closed
        THEN s1
        ELSE [s1 EXCEPT !.cs[c].shell = "pending"]

\* the callback of client.shell(...)
onShell(st, c, shellError) ==
  IF shellError
    THEN close(emit([st EXCEPT !.cs[c].shell = "failed"], st.cs[c].tab,
                    Event("error", c, st.cs[c].call)),
               st.cs[c].tab)
    ELSE IF ~Registered(st, c) \/ st.cs[c].closed
           THEN [st EXCEPT !.cs[c].shell = "dropped"]
           ELSE emit([st EXCEPT !.cs[c].shell = "open"], st.cs[c].tab,
                     Event("connected", c, st.cs[c].call))

\* shell.on("close")
onShellClose(st, c) ==
  close([st EXCEPT !.cs[c].shell = "closed"], st.cs[c].tab)

shouldFallbackToNative(message, session, connection) ==
  IF connection.fallbackTried \/ session.authType # "privateKey"
    THEN FALSE
    ELSE MatchesHandshakeFailure(message)

\* spawnOk: whether spawn("ssh", ...) returns a process or throws.
connectViaNative(st, tabId, session, k, spawnOk) ==
  IF session.authType # "privateKey" \/ ~session.privateKeyPath \/ ~spawnOk
    THEN [threw |-> TRUE, st |-> st]
    ELSE LET n == st.next
             s1 == [st EXCEPT !.cs = @ @@ (n :> NewNativeConnection(tabId, session, k)),
                              !.reg[tabId] = n,
                              !.next = n + 1]
         IN  [threw |-> FALSE, st |-> emit(s1, tabId, Event("connected", n, k))]

fallbackToNative(st, c, spawnOk) ==
  IF st.cs[c].fallbackTried \/ st.cs[c].closed
    THEN st
    ELSE IF ~Registered(st, c)
      THEN st
      ELSE LET tabId == st.cs[c].tab
               s1 == [st EXCEPT !.cs[c].fallbackTried = TRUE,
                                !.cs[c].closed = TRUE,
                                !.cs[c].shell = EndShell(@),
                                !.cs[c].ended = TRUE]
               r == connectViaNative(s1, tabId, st.cs[c].sess, st.cs[c].call, spawnOk)
           IN  IF ~r.threw
                 THEN r.st
                 ELSE LET s2 == IF Registered(r.st, c)
                                  THEN [r.st EXCEPT !.reg[tabId] = None]
                                  ELSE r.st
                          s3 == emit(s2, tabId, Event("error", c, st.cs[c].call))
                      \* emitClosed({...connection, closed: false}): a copy
                      IN  emit(s3, tabId, Event("closed", c, st.cs[c].call))

\* client.on("error")
onError(st, c, message, spawnOk) ==
  IF ~Registered(st, c) \/ st.cs[c].closed
    THEN st
    ELSE IF shouldFallbackToNative(message, st.cs[c].sess, st.cs[c])
      THEN fallbackToNative(st, c, spawnOk)
      ELSE emit(st, st.cs[c].tab, Event("error", c, st.cs[c].call))

\* client.on("close")
onClose(st, c) ==
  IF ~Registered(st, c)
    THEN st
    ELSE [emitClosed(st, c) EXCEPT !.reg[st.cs[c].tab] = None]

\* process.on("error") of the native connection
onProcessError(st, c) ==
  IF ~Registered(st, c)
    THEN st
    ELSE emitClosed([emit(st, st.cs[c].tab, Event("error", c, st.cs[c].call))
                       EXCEPT !.reg[st.cs[c].tab] = None], c)

\* process.on("close") of the native connection
onProcessClose(st, c) ==
  IF ~Registered(st, c)
    THEN st
    ELSE emitClosed([st EXCEPT !.reg[st.cs[c].tab] = None], c)

ClientReady(c) ==
  /\ conns[c].mode = "ssh2"
  /\ ~conns[c].tclosed /\ ~conns[c].ready
  /\ Install(onReady(ConnState, c))
  /\ UNCHANGED <<calls, queueVars, xferVars, sftpVars, reconnectVars, ioVars, tripVars, ensureVars>>

ShellCallback(c, shellError) ==
  /\ conns[c].shell = "pending"
  /\ Install(onShell(ConnState, c, shellError))
  /\ UNCHANGED <<calls, queueVars, xferVars, sftpVars, reconnectVars, ioVars, tripVars, ensureVars>>

ShellClose(c) ==
  /\ conns[c].shell \in {"open", "ending"}
  /\ Install(onShellClose(ConnState, c))
  /\ UNCHANGED <<calls, queueVars, xferVars, sftpVars, reconnectVars, ioVars, tripVars, ensureVars>>

ClientError(c, message, spawnOk) ==
  /\ conns[c].mode = "ssh2"
  /\ ~conns[c].tclosed /\ conns[c].errors < MaxErrors
  /\ Install(onError([ConnState EXCEPT !.cs[c].errors = @ + 1], c, message, spawnOk))
  /\ UNCHANGED <<calls, queueVars, xferVars, sftpVars, reconnectVars, ioVars, tripVars, ensureVars>>

ClientClose(c) ==
  /\ conns[c].mode = "ssh2"
  /\ ~conns[c].tclosed
  /\ Install(onClose([ConnState EXCEPT !.cs[c].tclosed = TRUE], c))
  /\ UNCHANGED <<calls, queueVars, xferVars, sftpVars, reconnectVars, ioVars, tripVars, ensureVars>>

\* The `spawn` event of the child process: ssh has started.  The service
\* has no handler for it; ready records it for a native connection.
ProcessSpawn(c) ==
  /\ conns[c].mode = "native"
  /\ ~conns[c].tclosed /\ ~conns[c].ready /\ conns[c].errors = 0
  /\ Install([ConnState EXCEPT !.cs[c].ready = TRUE])
  /\ UNCHANGED <<calls, queueVars, xferVars, sftpVars, reconnectVars, ioVars, tripVars, ensureVars>>

ProcessError(c) ==
  /\ conns[c].mode = "native"
  /\ ~conns[c].tclosed /\ conns[c].errors < MaxErrors
  /\ Install(onProcessError([ConnState EXCEPT !.cs[c].errors = @ + 1], c))
  /\ UNCHANGED <<calls, queueVars, xferVars, sftpVars, reconnectVars, ioVars, tripVars, ensureVars>>

\* exit: the process ended normally ("ok") or with a failure status ("failed").
ProcessClose(c, exit) ==
  /\ conns[c].mode = "native"
  /\ ~conns[c].tclosed
  /\ Install(onProcessClose([ConnState EXCEPT !.cs[c].tclosed = TRUE,
                                              !.cs[c].exit = exit], c))
  /\ UNCHANGED <<calls, queueVars, xferVars, sftpVars, reconnectVars, ioVars, tripVars, ensureVars>>


(***************************************************************************)
(* Properties of the connection lifecycle.                                 *)
(***************************************************************************)
EventsOf(lg, type) == {i \in DOMAIN lg : lg[i].type = type}

\* closed=false with a transport that has not been ended
Live(c) == ~conns[c].closed /\ ~conns[c].ended /\ ~conns[c].tclosed

Returned(k) == calls[k].pc \in {"resolved", "rejected"}

Resolved(k) == calls[k].pc = "resolved"

\* C1: for every tabId at most one Connection is non-closed, also when two
\* connect calls overlap at their awaits; once two connect calls have both
\* returned, only the connection created by the later call is live or registered.
C1_OneLiveConnectionPerTab ==
  /\ \A t \in Tabs :
       Cardinality({c \in DOMAIN conns : conns[c].tab = t /\ Live(c)}) <= 1
  /\ \A k1, k2 \in DOMAIN calls :
       (k1 < k2 /\ calls[k1].tab = calls[k2].tab /\ Resolved(k1) /\ Resolved(k2))
         => \A c \in DOMAIN conns :
              (conns[c].tab = calls[k2].tab /\ (Live(c) \/ connections[conns[c].tab] = c))
                => conns[c].call = k2

\* C2: in the status events of one tabId, `connected` never follows `closed`
\* without a `connecting` between them.
C2_ConnectedOnlyAfterConnecting ==
  \A t \in Tabs :
    \A i \in EventsOf(log[t], "closed"), j \in EventsOf(log[t], "connected") :
      i < j => \E k \in EventsOf(log[t], "connecting") : i < k /\ k < j

ClosedEvents(lg, c) == {i \in EventsOf(lg, "closed") : lg[i].conn = c}

\* C3: one Connection never produces two `closed` events, whatever order
\* close(tabId) and the transport, shell and process events arrive in, and
\* close(tabId) on a tab with no registered connection emits nothing and
\* changes nothing.
C3_ClosedOncePerConnection ==
  [][/\ \A t \in Tabs : \A c \in 1..nextConn' :
          Cardinality(ClosedEvents(log'[t], c)) <= 1
     /\ \A t \in Tabs :
          (Close(t) /\ connections[t] = None) => UNCHANGED connVars]_vars

\* C3 witness: close(tabId) has closed a connected connection, its shell has
\* reported close after that, and the connection has one `closed` event.
C3_Witness ==
  \E c \in DOMAIN conns :
    /\ conns[c].shell = "closed" /\ conns[c].ended /\ conns[c].closed
    /\ Cardinality(ClosedEvents(log[conns[c].tab], c)) = 1

ErrorThenClosed(lg, c) ==
  \E i \in EventsOf(lg, "error"), j \in EventsOf(lg, "closed") :
    i < j /\ lg[i].conn = c /\ lg[j].conn = c

\* C4: after the one native fallback of a connect, a failure of the native
\* transport (the ssh process ends with a failure status while it is the
\* tab's connection) is surfaced as an error event followed by `closed`,
\* and no error of the embedded client starts a second fallback.
C4_NativeFailureSurfacedAsError ==
  [][/\ \A c \in DOMAIN conns :
          (ProcessClose(c, "failed") /\ connections[conns[c].tab] = c)
            => ErrorThenClosed(log'[conns[c].tab], c)
     /\ \A c \in DOMAIN conns :
          (conns[c].fallbackTried
             /\ \E m \in ErrorMessages, ok \in BOOLEAN : ClientError(c, m, ok))
            => nextConn' = nextConn]_vars

\* C5: a native fallback starts only for an error that arrives before the
\* ready event, matches a handshake-failure signature, on a private-key
\* session, with no fallback attempted before.
C5_FallbackOnlyBeforeReady ==
  [][\A c \in DOMAIN conns :
       (c \in DOMAIN conns' /\ ~conns[c].fallbackTried /\ conns'[c].fallbackTried)
         => /\ ~conns[c].ready
            /\ conns[c].sess.authType = "privateKey"
            /\ \E m \in ErrorMessages, ok \in BOOLEAN :
                 MatchesHandshakeFailure(m) /\ ClientError(c, m, ok)]_vars

EventsOfCall(lg, type, k) == {i \in EventsOf(lg, type) : lg[i].call = k}

\* C6: a connect that emitted `connecting` and whose attempt is over (the
\* call has returned and no connection object of it can act any more) has
\* emitted `connected` or `closed`, and a failed call has emitted an error event.
C6_AttemptEndsWithStatusAndError ==
  \A k \in DOMAIN calls :
    LET lg == log[calls[k].tab]
    IN  (/\ EventsOfCall(lg, "connecting", k) # {}
         /\ Returned(k)
         /\ \A c \in DOMAIN conns : conns[c].call # k)
          => /\ EventsOfCall(lg, "connected", k) \cup EventsOfCall(lg, "closed", k) # {}
             /\ calls[k].pc = "rejected" => EventsOfCall(lg, "error", k) # {}


(***************************************************************************)
(* The renderer's upload queue.  A job is a PendingUploadJob; its id is    *)
(* its transferId (createTransferId: time and random digits, taken to be   *)
(* unique).  phase is the position of the promise drainUploadQueue starts  *)
(* for it; ui is the status the transfer list shows for it.                *)
(***************************************************************************)
UPLOAD_MAX_CONCURRENCY == 2

\* Bound: upload jobs created in one behaviour.
MaxJobs == 3
\* Bound: files of one uploadLocalPathsToSftp call.
MaxBatch == 2

QueueState ==
  [queue |-> uploadQueue, running |-> runningUploadIds,
   connected |-> connectedTabIds, jobs |-> uploadJobs]

InstallQueue(qs) ==
  /\ uploadQueue' = qs.queue
  /\ runningUploadIds' = qs.running
  /\ connectedTabIds' = qs.connected
  /\ uploadJobs' = qs.jobs

RemoveAt(seq, i) == SubSeq(seq, 1, i - 1) \o SubSeq(seq, i + 1, Len(seq))

\* The first job of the queue, whatever its tab.
FindFirstIndex(qs) == IF qs.queue = <<>> THEN 0 ELSE 1

\* findIndex((job) => connectedTabIdsRef.current.has(job.tabId)); 0 for -1
FindConnectedIndex(qs) ==
  LET hits == {i \in DOMAIN qs.queue : qs.jobs[qs.queue[i]].tab \in qs.connected}
  IN  IF hits = {} THEN 0 ELSE CHOOSE i \in hits : \A j \in hits : i <= j

RECURSIVE drainUploadQueueOffByOne(_)
drainUploadQueueOffByOne(qs) ==
  IF Cardinality(qs.running) <= UPLOAD_MAX_CONCURRENCY /\ FindConnectedIndex(qs) # 0
    THEN LET i == FindConnectedIndex(qs)
             nextJob == qs.queue[i]
         IN  drainUploadQueueOffByOne(
               [qs EXCEPT !.queue = RemoveAt(@, i),
                          !.running = @ \cup {nextJob},
                          !.jobs[nextJob].phase = "ensureRemoteDirectory"])
    ELSE qs

\* The loop of drainUploadQueue.  It runs without an await, so the
\* isDrainingUploadQueueRef guard is never set when it is entered.
RECURSIVE drainUploadQueue(_)
drainUploadQueue(qs) ==
  IF Cardinality(qs.running) < UPLOAD_MAX_CONCURRENCY /\ FindConnectedIndex(qs) # 0
    THEN LET i == FindConnectedIndex(qs)
             nextJob == qs.queue[i]
         IN  drainUploadQueue(
               [qs EXCEPT !.queue = RemoveAt(@, i),
                          !.running = @ \cup {nextJob},
                          !.jobs[nextJob].phase = "ensureRemoteDirectory"])
    ELSE qs

openTerminalTab(tabId) ==
  /\ tabId \notin terminalTabs \cup closedTabs
  /\ terminalTabs' = terminalTabs \cup {tabId}
  /\ UNCHANGED <<uploadQueue, runningUploadIds, connectedTabIds, closedTabs, uploadJobs>>
  /\ UNCHANGED <<connVars, xferVars, sftpVars, reconnectVars, ioVars, tripVars, ensureVars>>

\* uploadLocalPathsToSftp with n files, from the point where
\* systemApi.expandUploadPaths has resolved: tabId is the tab that was active
\* when the call was made, which may have been closed during the await.
RECURSIVE PushJobs(_, _, _)
PushJobs(qs, tabId, n) ==
  IF n = 0
    THEN qs
    ELSE LET id == Len(qs.jobs) + 1
         IN  PushJobs([qs EXCEPT !.jobs = Append(@, [tab |-> tabId, phase |-> "queued", ui |-> "queued"]),
                                 !.queue = Append(@, id)],
                      tabId, n - 1)

uploadLocalPathsToSftp(tabId, n) ==
  /\ tabId \in terminalTabs \cup closedTabs
  /\ Len(uploadJobs) + n <= MaxJobs
  /\ InstallQueue(drainUploadQueue(PushJobs(QueueState, tabId, n)))
  /\ UNCHANGED <<terminalTabs, closedTabs, connVars, xferVars, sftpVars, reconnectVars, ioVars, tripVars, ensureVars>>

\* The terminal event listener: a status or error event of a tab.
onTerminalEvent(qs, tabId, type, status) ==
  IF type = "status" /\ status = "connected"
    THEN drainUploadQueue([qs EXCEPT !.connected = @ \cup {tabId}])
    ELSE [qs EXCEPT !.connected = @ \ {tabId}]

TerminalEvent(tabId, type, status) ==
  /\ tabId \in terminalTabs \cup closedTabs
  /\ InstallQueue(onTerminalEvent(QueueState, tabId, type, status))
  /\ UNCHANGED <<terminalTabs, closedTabs, connVars, xferVars, sftpVars, reconnectVars, ioVars, tripVars, ensureVars>>

\* A .finally that frees the slot and does not drain.
SettleJobWithoutDrain(qs, j, status) ==
  [qs EXCEPT !.running = @ \ {j},
             !.jobs[j].phase = "settled",
             !.jobs[j].ui = status]

\* The promise of a started job: ensureRemoteDirectoryForUpload, then
\* sftpApi.uploadFile; .catch marks a failure, .finally frees the slot and drains.
SettleJob(qs, j, status) ==
  drainUploadQueue([qs EXCEPT !.running = @ \ {j},
                              !.jobs[j].phase = "settled",
                              !.jobs[j].ui = status])

EnsureRemoteDirectoryDone(j, ok) ==
  /\ uploadJobs[j].phase = "ensureRemoteDirectory"
  /\ InstallQueue(IF ok
                    THEN [QueueState EXCEPT !.jobs[j].phase = "uploadFile"]
                    ELSE SettleJob(QueueState, j, "failed"))
  /\ UNCHANGED <<terminalTabs, closedTabs, connVars, xferVars, sftpVars, reconnectVars, ioVars, tripVars, ensureVars>>

\* The main process reports the job running.
UploadRunningEvent(j) ==
  /\ uploadJobs[j].phase = "uploadFile"
  /\ uploadJobs[j].ui # "running"
  /\ InstallQueue([QueueState EXCEPT !.jobs[j].ui = "running"])
  /\ UNCHANGED <<terminalTabs, closedTabs, connVars, xferVars, sftpVars, reconnectVars, ioVars, tripVars, ensureVars>>

\* sftpApi.uploadFile settles, after the terminal event of the main process.
UploadFileSettled(j, status) ==
  /\ uploadJobs[j].phase = "uploadFile"
  /\ InstallQueue(SettleJob(QueueState, j, status))
  /\ UNCHANGED <<terminalTabs, closedTabs, connVars, xferVars, sftpVars, reconnectVars, ioVars, tripVars, ensureVars>>

\* cancelSftpUpload of a transfer the list shows queued and the queue holds;
\* any other transfer is handed to sftpApi.cancelUpload.
cancelSftpUpload(j) ==
  /\ uploadJobs[j].ui = "queued"
  /\ \E i \in DOMAIN uploadQueue : uploadQueue[i] = j
  /\ LET i == CHOOSE i \in DOMAIN uploadQueue : uploadQueue[i] = j
     IN  InstallQueue(drainUploadQueue(
           [QueueState EXCEPT !.queue = RemoveAt(@, i),
                              !.jobs[j].phase = "settled",
                              !.jobs[j].ui = "canceled"]))
  /\ UNCHANGED <<terminalTabs, closedTabs, connVars, xferVars, sftpVars, reconnectVars, ioVars, tripVars, ensureVars>>

RECURSIVE CancelJobs(_, _)
CancelJobs(jobs, ids) ==
  IF ids = {}
    THEN jobs
    ELSE LET j == CHOOSE x \in ids : TRUE
         IN  CancelJobs([jobs EXCEPT ![j].phase = "settled", ![j].ui = "canceled"],
                        ids \ {j})

closeTerminalTab(tabId) ==
  /\ tabId \in terminalTabs
  /\ LET qs == [QueueState EXCEPT !.connected = @ \ {tabId}]
         queued == {qs.queue[i] : i \in {x \in DOMAIN qs.queue : qs.jobs[qs.queue[x]].tab = tabId}}
     IN  InstallQueue(
           IF queued # {}
             THEN drainUploadQueue(
                    [qs EXCEPT !.queue = SelectSeq(@, LAMBDA j : qs.jobs[j].tab # tabId),
                               !.jobs = CancelJobs(@, queued)])
             ELSE qs)
  /\ terminalTabs' = terminalTabs \ {tabId}
  /\ closedTabs' = closedTabs \cup {tabId}
  /\ UNCHANGED <<connVars, xferVars, sftpVars, reconnectVars, ioVars, tripVars, ensureVars>>

\* removeSession, once sessionsApi.remove has resolved.
removeSession(sessionId) ==
  /\ \E t \in terminalTabs : TabSession(t) = sessionId
  /\ LET removedTabs == {t \in terminalTabs : TabSession(t) = sessionId}
     IN  /\ connectedTabIds' = connectedTabIds \ removedTabs
         /\ terminalTabs' = terminalTabs \ removedTabs
         /\ closedTabs' = closedTabs \cup removedTabs
  /\ UNCHANGED <<uploadQueue, runningUploadIds, uploadJobs, connVars, xferVars, sftpVars, reconnectVars, ioVars, tripVars, ensureVars>>

NextQueue ==
  \/ \E t \in Tabs : openTerminalTab(t)
  \/ \E t \in Tabs, n \in 1..MaxBatch : uploadLocalPathsToSftp(t, n)
  \/ \E t \in Tabs, s \in {"connected", "closed"} : TerminalEvent(t, "status", s)
  \/ \E t \in Tabs : TerminalEvent(t, "error", "")
  \/ \E j \in DOMAIN uploadJobs, ok \in BOOLEAN : EnsureRemoteDirectoryDone(j, ok)
  \/ \E j \in DOMAIN uploadJobs : UploadRunningEvent(j)
  \/ \E j \in DOMAIN uploadJobs, s \in {"completed", "failed", "canceled"} : UploadFileSettled(j, s)
  \/ \E j \in DOMAIN uploadJobs : cancelSftpUpload(j)
  \/ \E t \in Tabs : closeTerminalTab(t)
  \/ \E s \in {"key", "pw"} : removeSession(s)

SpecQueue == Init /\ [][NextQueue]_vars

\* the upload jobs that were started and have not settled
RunningJobs == {j \in DOMAIN uploadJobs : uploadJobs[j].phase \in {"ensureRemoteDirectory", "uploadFile"}}

\* C7: with the global cap of 2, at every instant at most 2 upload jobs over
\* all tabs are started and unsettled; a queued job starts only into a free slot.
C7_AtMostTwoRunningUploads ==
  /\ Cardinality(RunningJobs) <= UPLOAD_MAX_CONCURRENCY
  /\ runningUploadIds = RunningJobs

\* C7 witness: two jobs run while a third, whose tab is connected, waits.
C7_Witness ==
  /\ Cardinality(RunningJobs) = 2
  /\ \E i \in DOMAIN uploadQueue : uploadJobs[uploadQueue[i]].tab \in connectedTabIds

\* C8: a queued upload job whose tab is gone (closed by the user or removed
\* with its session) has left the queue with a `canceled` status: no job
\* stays queued for a tab that no longer exists.
C8_QueuedJobsOfGoneTabsCanceled ==
  \A j \in DOMAIN uploadJobs :
    uploadJobs[j].tab \notin terminalTabs
      => /\ \A i \in DOMAIN uploadQueue : uploadQueue[i] # j
         /\ uploadJobs[j].phase # "queued"


(***************************************************************************)
(* File transfers of the main process.  xfers[j] is the j-th invocation of *)
(* uploadFile or downloadFile, taken from the point where                  *)
(* getConnectedSsh2Connection has returned the connection and ensureSftp   *)
(* its channel; the sender of the connection is not destroyed.  The two    *)
(* registries map a transfer key to the job registered under it.           *)
(***************************************************************************)
\* Bound: uploadFile/downloadFile invocations in one behaviour.
MaxXfers == 2
\* Bound: chunks (of one byte) a stream delivers.
MaxBytes == 2

TransferIds == {"x1", "x2"}
\* The sizes stat reports: unknown or empty, and a size the chunks can exceed.
FileSizes == {0, 1}

Min(a, b) == IF a <= b THEN a ELSE b
Max(a, b) == IF a >= b THEN a ELSE b

XferState == [up |-> activeUploadTransfers, down |-> activeDownloadTransfers, xs |-> xfers]

InstallXfer(st) ==
  /\ activeUploadTransfers' = st.up
  /\ activeDownloadTransfers' = st.down
  /\ xfers' = st.xs

createTransferEventUnclamped(status, transferredBytes, totalBytes) ==
  [status |-> status, transferredBytes |-> transferredBytes, totalBytes |-> totalBytes]

createTransferEvent(status, transferredBytes, totalBytes) ==
  LET safeTotalBytes == Max(0, totalBytes)
      safeTransferredBytes ==
        Max(0, Min(transferredBytes,
                   IF safeTotalBytes # 0 THEN safeTotalBytes ELSE transferredBytes))
  IN  [status |-> status, transferredBytes |-> safeTransferredBytes,
       totalBytes |-> safeTotalBytes]

emitTransfer(st, j, event) == [st EXCEPT !.xs[j].events = Append(@, event)]

RegistryDelete(registry, key) == [k \in DOMAIN registry \ {key} |-> registry[k]]

RegistrySet(registry, key, entry) ==
  [k \in DOMAIN registry \cup {key} |-> IF k = key THEN entry ELSE registry[k]]

\* activeUploadTransfers.has(transferKey) / activeDownloadTransfers.has(transferKey)
RegistryHasNever(registry, key) == FALSE

RegistryHas(registry, key) == key \in DOMAIN registry

\* The outcomes of a rejected call: result and error message.
Reject(st, j, message) ==
  [st EXCEPT !.xs[j].pc = "done", !.xs[j].result = "rejected", !.xs[j].error = message]

\* A key that leaves the tab out.
toTransferKeyIgnoresTab(tabId, transferId) == transferId

\* `${tabId}:${transferId}`
toTransferKey(tabId, transferId) == tabId \o ":" \o transferId

\* const transferKey = toTransferKey(tabId, safeTransferId)
TransferKey(x) == toTransferKey(x.tab, x.transferId)

NewTransfer(direction, tabId, transferId) ==
  [direction |-> direction, tab |-> tabId, transferId |-> transferId, pc |-> "stat",
   transferredBytes |-> 0, totalBytes |-> 0, events |-> <<>>,
   result |-> "pending", error |-> "", registered |-> FALSE, cancelTrue |-> FALSE,
   cancelMissed |-> FALSE, unlinked |-> FALSE, unlinks |-> 0, destroys |-> 0,
   readStream |-> "none", writeStream |-> "none", statMode |-> 0]

\* uploadFile / downloadFile up to the await of statLocalFile / statRemote.
TransferCall(direction, tabId, transferId) ==
  /\ Len(xfers) < MaxXfers
  /\ xfers' = Append(xfers, NewTransfer(direction, tabId, transferId))
  /\ UNCHANGED <<activeUploadTransfers, activeDownloadTransfers, connVars, queueVars, sftpVars, reconnectVars, ioVars, tripVars, ensureVars>>

\* The statements from reportProgress() to the await of pipeWithProgress.
StartPipe(st, j, registry) ==
  LET x == st.xs[j]
      st1 == emitTransfer(st, j, createTransferEvent("running", x.transferredBytes, x.totalBytes))
  IN  [st1 EXCEPT !.xs[j].readStream = "open",
                  !.xs[j].writeStream = "open",
                  !.xs[j].pc = IF registry[TransferKey(x)].canceled THEN "unlink" ELSE "pipe"]

\* uploadFile from the result of statLocalFile to the await of pipeWithProgress.
UploadStatDone(j, ok, size) ==
  /\ xfers[j].direction = "upload"
  /\ xfers[j].pc = "stat"
  /\ LET key == TransferKey(xfers[j])
         st == XferState
     IN  InstallXfer(
           IF ~ok
             THEN Reject(st, j, "stat")
           ELSE IF RegistryHas(st.up, key)
             THEN Reject(st, j, "Upload transfer is already running.")
             ELSE LET st1 == [st EXCEPT !.up = RegistrySet(@, key, [call |-> j, canceled |-> FALSE, streams |-> TRUE]),
                                        !.xs[j].registered = TRUE,
                                        !.xs[j].totalBytes = Max(0, size)]
                      st2 == emitTransfer(st1, j, createTransferEvent("queued", 0, st1.xs[j].totalBytes))
                  IN  StartPipe(st2, j, st2.up))
  /\ UNCHANGED <<connVars, queueVars, sftpVars, reconnectVars, ioVars, tripVars, ensureVars>>

\* The modes statRemote reports: a directory (0o040755) and a regular file
\* (0o100644).
StatModes == {16877, 33188}

isDirectoryModeNever(mode) == FALSE

\* (mode & 0o170000) === 0o040000
isDirectoryMode(mode) == (mode \div 4096) % 16 = 4

DirectoryError == "Downloading directories is not supported yet."

\* downloadFile from the result of statRemote to the await of mkdirLocalDirectory.
DownloadStatDone(j, ok, size, mode) ==
  /\ xfers[j].direction = "download"
  /\ xfers[j].pc = "stat"
  /\ LET key == TransferKey(xfers[j])
         st == [XferState EXCEPT !.xs[j].statMode = IF ok THEN mode ELSE 0]
     IN  InstallXfer(
           IF ~ok
             THEN Reject(st, j, "stat")
           ELSE IF isDirectoryMode(mode)
             THEN Reject(st, j, DirectoryError)
           ELSE IF RegistryHas(st.down, key)
             THEN Reject(st, j, "Download transfer is already running.")
             ELSE [st EXCEPT !.down = RegistrySet(@, key, [call |-> j, canceled |-> FALSE, streams |-> FALSE]),
                             !.xs[j].registered = TRUE,
                             !.xs[j].totalBytes = IF size > 0 THEN size ELSE 0,
                             !.xs[j].pc = "mkdir"])
  /\ UNCHANGED <<connVars, queueVars, sftpVars, reconnectVars, ioVars, tripVars, ensureVars>>

\* downloadFile from the result of mkdirLocalDirectory, which is awaited
\* outside the try statement, to the await of pipeWithProgress.
DownloadMkdirDone(j, ok) ==
  /\ xfers[j].pc = "mkdir"
  /\ LET key == TransferKey(xfers[j])
         st == XferState
     IN  InstallXfer(
           IF ~ok
             THEN Reject(st, j, "mkdir")
             ELSE LET st1 == emitTransfer(st, j, createTransferEvent("queued", 0, st.xs[j].totalBytes))
                      st2 == [st1 EXCEPT !.down[key].streams = TRUE]
                  IN  StartPipe(st2, j, st2.down))
  /\ UNCHANGED <<connVars, queueVars, sftpVars, reconnectVars, ioVars, tripVars, ensureVars>>

ActiveTransfer(st, j) ==
  IF st.xs[j].direction = "upload" THEN st.up[TransferKey(st.xs[j])]
                                   ELSE st.down[TransferKey(st.xs[j])]

\* The finally clause of uploadFile / downloadFile.
FinallyDelete(st, j) ==
  IF st.xs[j].direction = "upload"
    THEN [st EXCEPT !.up = RegistryDelete(@, TransferKey(st.xs[j]))]
    ELSE [st EXCEPT !.down = RegistryDelete(@, TransferKey(st.xs[j]))]

\* onData of pipeWithProgress: a chunk of one byte.
PipeData(j) ==
  /\ xfers[j].pc = "pipe"
  /\ ~ActiveTransfer(XferState, j).canceled        \* the streams are not destroyed
  /\ xfers[j].transferredBytes < MaxBytes
  /\ LET st == [XferState EXCEPT !.xs[j].transferredBytes = @ + 1]
     IN  InstallXfer(emitTransfer(st, j,
           createTransferEvent("running", st.xs[j].transferredBytes, st.xs[j].totalBytes)))
  /\ UNCHANGED <<connVars, queueVars, sftpVars, reconnectVars, ioVars, tripVars, ensureVars>>

\* How pipeWithProgress settles: onDone on the destination's "finish", onDone
\* on the destination's "close" when no "finish" and no "error" came before
\* it, onReadError or onWriteError.
PipeOutcomes == {"finish", "close", "readError", "writeError"}

\* The streams when the pipe settles.  readStream.pipe(writeStream) ends the
\* destination when the source ends; a stream that reports an error is
\* destroyed by the stream itself, and the other one is left as it is: the
\* service destroys streams in cancelUpload / cancelDownload only.
StreamsAfterPipe(x, outcome) ==
  IF x.readStream = "destroyed" \/ x.writeStream = "destroyed"
    THEN x
    ELSE IF outcome = "finish"
      THEN [x EXCEPT !.readStream = "ended", !.writeStream = "ended"]
      ELSE IF outcome = "close"
        THEN [x EXCEPT !.writeStream = "closed"]
      ELSE IF outcome = "readError"
        THEN [x EXCEPT !.readStream = "destroyed"]
        ELSE [x EXCEPT !.writeStream = "destroyed"]

\* A failure branch that cleans up like the cancel branch.
PipeSettledUnlinksOnFailure(j, outcome) ==
  /\ xfers[j].pc = "pipe"
  /\ InstallXfer([XferState EXCEPT !.xs[j] = [StreamsAfterPipe(@, outcome) EXCEPT !.pc = "unlink"]])
  /\ UNCHANGED <<connVars, queueVars, sftpVars, reconnectVars, ioVars, tripVars, ensureVars>>

\* pipeWithProgress settles, and uploadFile / downloadFile runs on to its
\* end or to the await of the unlink.
PipeSettled(j, outcome) ==
  /\ xfers[j].pc = "pipe"
  /\ LET st == [XferState EXCEPT !.xs[j] = StreamsAfterPipe(@, outcome)]
         x == st.xs[j]
         completedBytes == IF x.direction = "upload" \/ x.totalBytes # 0
                             THEN x.totalBytes ELSE x.transferredBytes
         failedTotal == IF x.direction = "upload" \/ x.totalBytes # 0
                          THEN x.totalBytes ELSE x.transferredBytes
     IN  InstallXfer(
           IF ActiveTransfer(st, j).canceled
             THEN [st EXCEPT !.xs[j].pc = "unlink"]
             ELSE IF outcome \in {"readError", "writeError"}
               THEN FinallyDelete(
                      [emitTransfer(st, j, createTransferEvent("failed", x.transferredBytes, failedTotal))
                         EXCEPT !.xs[j].pc = "done", !.xs[j].result = "rejected",
                                !.xs[j].error = outcome], j)
               ELSE FinallyDelete(
                      [emitTransfer(st, j, createTransferEvent("completed", completedBytes, completedBytes))
                         EXCEPT !.xs[j].pc = "done", !.xs[j].result = "resolved"], j))
  /\ UNCHANGED <<connVars, queueVars, sftpVars, reconnectVars, ioVars, tripVars, ensureVars>>

\* unlinkIgnoreMissing / unlinkLocalIgnoreMissing settles (its outcome is
\* ignored), and the cancel branch of the catch clause runs to its return.
UnlinkDone(j) ==
  /\ xfers[j].pc = "unlink"
  /\ LET st == [XferState EXCEPT !.xs[j].unlinked = TRUE, !.xs[j].unlinks = @ + 1]
         x == st.xs[j]
         total == IF x.direction = "upload" \/ x.totalBytes # 0
                    THEN x.totalBytes ELSE x.transferredBytes
     IN  InstallXfer(FinallyDelete(
           [emitTransfer(st, j, createTransferEvent("canceled", x.transferredBytes, total))
              EXCEPT !.xs[j].pc = "done", !.xs[j].result = "resolved"], j))
  /\ UNCHANGED <<connVars, queueVars, sftpVars, reconnectVars, ioVars, tripVars, ensureVars>>

destroyStream(stream) == IF stream = "none" THEN "none" ELSE "destroyed"

\* cancelUpload / cancelDownload on one registry; the call a `true` is
\* returned for is noted in xfers.
cancelTransfer(registry, xs, transferKey) ==
  IF transferKey \notin DOMAIN registry
    THEN [registry |-> registry, xs |-> xs, returned |-> FALSE]
    ELSE LET j == registry[transferKey].call
         IN  IF registry[transferKey].canceled
               THEN [registry |-> registry,
                     xs |-> [xs EXCEPT ![j].cancelTrue = TRUE],
                     returned |-> TRUE]
               ELSE [registry |-> [registry EXCEPT ![transferKey].canceled = TRUE],
                     xs |-> [xs EXCEPT ![j].cancelTrue = TRUE,
                                       ![j].destroys = @ + 1,
                                       ![j].readStream = destroyStream(@),
                                       ![j].writeStream = destroyStream(@)],
                     returned |-> TRUE]

\* An upload call that has not registered its job yet: a cancelUpload that
\* finds no job under its key is noted in it (cancelMissed).
MissedUploads(xs, transferKey) ==
  [j \in DOMAIN xs |->
     IF xs[j].direction = "upload" /\ xs[j].pc = "stat" /\ TransferKey(xs[j]) = transferKey
       THEN [xs[j] EXCEPT !.cancelMissed = TRUE]
       ELSE xs[j]]

cancelUpload(tabId, transferId) ==
  /\ LET r == cancelTransfer(activeUploadTransfers, xfers, toTransferKey(tabId, transferId))
     IN  /\ activeUploadTransfers' = r.registry
         /\ xfers' = IF r.returned THEN r.xs
                                   ELSE MissedUploads(r.xs, toTransferKey(tabId, transferId))
  /\ UNCHANGED <<activeDownloadTransfers, connVars, queueVars, sftpVars, reconnectVars, ioVars, tripVars, ensureVars>>

cancelDownload(tabId, transferId) ==
  /\ LET r == cancelTransfer(activeDownloadTransfers, xfers, toTransferKey(tabId, transferId))
     IN  /\ activeDownloadTransfers' = r.registry
         /\ xfers' = r.xs
  /\ UNCHANGED <<activeUploadTransfers, connVars, queueVars, sftpVars, reconnectVars, ioVars, tripVars, ensureVars>>

NextXfer ==
  \/ \E d \in {"upload", "download"}, t \in Tabs, id \in TransferIds : TransferCall(d, t, id)
  \/ \E j \in DOMAIN xfers, ok \in BOOLEAN, size \in FileSizes : UploadStatDone(j, ok, size)
  \/ \E j \in DOMAIN xfers, ok \in BOOLEAN, size \in FileSizes, mode \in StatModes :
       DownloadStatDone(j, ok, size, mode)
  \/ \E j \in DOMAIN xfers, ok \in BOOLEAN : DownloadMkdirDone(j, ok)
  \/ \E j \in DOMAIN xfers : PipeData(j)
  \/ \E j \in DOMAIN xfers, outcome \in PipeOutcomes : PipeSettled(j, outcome)
  \/ \E j \in DOMAIN xfers : UnlinkDone(j)
  \/ \E t \in Tabs, id \in TransferIds : cancelUpload(t, id)
  \/ \E t \in Tabs, id \in TransferIds : cancelDownload(t, id)

SpecXfer == Init /\ [][NextXfer]_vars

IsTerminal(event) == event.status \in {"completed", "failed", "canceled"}

\* queued, then running events with non-decreasing transferredBytes, then
\* at most one terminal event, which is the last event
OrderedEvents(events) ==
  /\ events # <<>> => events[1].status = "queued"
  /\ \A i \in 2..Len(events) : events[i].status # "queued"
  /\ \A i \in 1..(Len(events) - 1) : ~IsTerminal(events[i])
  /\ \A i, k \in DOMAIN events :
       (i < k /\ events[i].status = "running" /\ events[k].status = "running")
         => events[i].transferredBytes <= events[k].transferredBytes

\* C9: every job entered into a registry gets, in order, one `queued` event,
\* one or more `running` events whose transferredBytes never decrease, and,
\* by the time its uploadFile/downloadFile call has settled, exactly one
\* terminal event, after which no event follows.
C9_TransferEventOrder ==
  \A j \in DOMAIN xfers :
    xfers[j].registered =>
      /\ OrderedEvents(xfers[j].events)
      /\ xfers[j].result # "pending" =>
           /\ Len(xfers[j].events) >= 3
           /\ xfers[j].events[2].status = "running"
           /\ IsTerminal(xfers[j].events[Len(xfers[j].events)])

\* C10: once cancelUpload/cancelDownload has returned true for a job and
\* its uploadFile/downloadFile call has settled, the promise is resolved,
\* the job's last event is `canceled`, and the unlink of the partial file
\* was done before that event.
C10_CancelEndsCanceled ==
  \A j \in DOMAIN xfers :
    (xfers[j].cancelTrue /\ xfers[j].result # "pending") =>
      /\ xfers[j].result = "resolved"
      /\ xfers[j].events # <<>>
      /\ xfers[j].events[Len(xfers[j].events)].status = "canceled"
      /\ xfers[j].unlinked


CountStatus(events, status) == Cardinality({i \in DOMAIN events : events[i].status = status})

\* What a cancel of transferId on a registry must be: `true` only for a job
\* whose call has not ended, and without any effect when the job is canceled
\* already.
IdempotentCancel(registry, transferId) ==
  LET r == cancelTransfer(registry, xfers, transferId)
  IN  /\ r.returned => xfers[registry[transferId].call].result = "pending"
      /\ (r.returned /\ registry[transferId].canceled) => UNCHANGED xferVars

\* C11: cancelUpload/cancelDownload are idempotent: a cancel returns false
\* once the job has ended, and true without destroying the streams again
\* while a canceled job winds down; whatever the number of cancel calls, a
\* job's streams are destroyed by at most one of them, its partial file is
\* unlinked at most once and it gets at most one `canceled` event.
C11_CancelIdempotent ==
  [][/\ \A t \in Tabs, id \in TransferIds :
          /\ cancelUpload(t, id) => IdempotentCancel(activeUploadTransfers, toTransferKey(t, id))
          /\ cancelDownload(t, id) => IdempotentCancel(activeDownloadTransfers, toTransferKey(t, id))
     /\ \A j \in DOMAIN xfers' :
          /\ xfers'[j].destroys <= 1
          /\ xfers'[j].unlinks <= 1
          /\ CountStatus(xfers'[j].events, "canceled") <= 1]_vars


AlreadyRunning(x) ==
  x.error \in {"Upload transfer is already running.", "Download transfer is already running."}

\* the calls that hold an active job: registered and not settled
ActiveJobs(xs) == {j \in DOMAIN xs : xs[j].registered /\ xs[j].result = "pending"}

\* C12: uploadFile (downloadFile) with a transferId that already has an
\* active upload (download) job is rejected with the `already running`
\* error, emits no transfer event and leaves both registries and every
\* other job unchanged; at most one active job per transferId and
\* direction exists.
C12_DuplicateTransferRejected ==
  [][/\ \A j \in DOMAIN xfers :
          (~AlreadyRunning(xfers[j]) /\ AlreadyRunning(xfers'[j])) =>
            /\ xfers'[j].events = <<>>
            /\ xfers'[j].result = "rejected"
            /\ ~xfers'[j].registered
            /\ UNCHANGED <<activeUploadTransfers, activeDownloadTransfers>>
            /\ \A k \in DOMAIN xfers \ {j} : xfers'[k] = xfers[k]
     /\ \A j, k \in ActiveJobs(xfers') :
          (xfers'[j].direction = xfers'[k].direction
             /\ xfers'[j].tab = xfers'[k].tab
             /\ xfers'[j].transferId = xfers'[k].transferId) => j = k]_vars

\* C12 witness: a call was rejected as a duplicate of a job that is active.
C12_Witness ==
  \E j \in DOMAIN xfers, k \in ActiveJobs(xfers) :
    /\ AlreadyRunning(xfers[j])
    /\ xfers[k].direction = xfers[j].direction
    /\ xfers[k].tab = xfers[j].tab
    /\ xfers[k].transferId = xfers[j].transferId


\* C13: a job stays in activeUploadTransfers / activeDownloadTransfers only
\* while its uploadFile / downloadFile call has not settled: on every path
\* the entry is removed when the call ends.
C13_SettledJobLeavesRegistry ==
  /\ \A id \in DOMAIN activeUploadTransfers :
       xfers[activeUploadTransfers[id].call].result = "pending"
  /\ \A id \in DOMAIN activeDownloadTransfers :
       xfers[activeDownloadTransfers[id].call].result = "pending"


(***************************************************************************)
(* createTransferEvent as a function of its payload: one job whose byte    *)
(* counters are any integers of a range, and events of every status built  *)
(* from them.                                                              *)
(***************************************************************************)
\* Bound: the byte counts of a payload are in -MaxAbsBytes..MaxAbsBytes.
MaxAbsBytes == 3
\* Bound: events built from one payload.
MaxEvents == 2

TransferStatuses == {"queued", "running", "completed", "failed", "canceled"}

InitEvent ==
  /\ connections = [t \in Tabs |-> None]
  /\ conns = <<>>
  /\ nextConn = 1
  /\ calls = <<>>
  /\ log = [t \in Tabs |-> <<>>]
  /\ uploadQueue = <<>>
  /\ runningUploadIds = {}
  /\ connectedTabIds = {}
  /\ terminalTabs = {}
  /\ closedTabs = {}
  /\ uploadJobs = <<>>
  /\ activeUploadTransfers = <<>>
  /\ activeDownloadTransfers = <<>>
  /\ \E transferredBytes \in -MaxAbsBytes..MaxAbsBytes, totalBytes \in -MaxAbsBytes..MaxAbsBytes :
       xfers = <<[NewTransfer("upload", "t1", "x1") EXCEPT !.transferredBytes = transferredBytes,
                                                   !.totalBytes = totalBytes]>>
  /\ sftpCalls = <<>>
  /\ listing = NoListing
  /\ reconnectAttempts = [t \in Tabs |-> 0]
  /\ reconnectTimers = [t \in Tabs |-> 0]
  /\ workspaceTabs = {}
  /\ autoReconnect = TRUE
  /\ connectPhase = [t \in Tabs |-> "idle"]
  /\ scheduled = [t \in Tabs |-> <<>>]
  /\ delayPreference = reconnectDelaySeconds
  /\ ioCalls = <<>>
  /\ NoTrip
  /\ NoEnsure

\* this.emitTransfer(connection, this.createTransferEvent({...}))
BuildEvent(status) ==
  /\ Len(xfers[1].events) < MaxEvents
  /\ InstallXfer(emitTransfer(XferState, 1,
        createTransferEvent(status, xfers[1].transferredBytes, xfers[1].totalBytes)))
  /\ UNCHANGED <<connVars, queueVars, sftpVars, reconnectVars, ioVars, tripVars, ensureVars>>

NextEvent == \E status \in TransferStatuses : BuildEvent(status)

SpecEvent == InitEvent /\ [][NextEvent]_vars

\* C14: every event built by createTransferEvent has transferredBytes >= 0
\* and totalBytes >= 0, and transferredBytes <= totalBytes whenever
\* totalBytes > 0, for all integer byte counts of the payload.
C14_TransferredBytesClamped ==
  \A j \in DOMAIN xfers : \A i \in DOMAIN xfers[j].events :
    LET event == xfers[j].events[i]
    IN  /\ event.transferredBytes >= 0
        /\ event.totalBytes >= 0
        /\ event.totalBytes > 0 => event.transferredBytes <= event.totalBytes

\* C14 witness: an event was built from a byte count above a positive total.
C14_Witness ==
  /\ xfers[1].events # <<>>
  /\ xfers[1].totalBytes > 0
  /\ xfers[1].transferredBytes > xfers[1].totalBytes
  /\ xfers[1].events[1].transferredBytes = xfers[1].totalBytes


\* C15: when the pipe of a job that is not canceled reports a read or write
\* error, the step ends the call: its last event is `failed`, the promise
\* is rejected with the error, no unlink was issued, the connections are
\* unchanged and no further transfer call is made (no retry).
C15_FailureMarksJobFailed ==
  [][\A j \in DOMAIN xfers, outcome \in {"readError", "writeError"} :
       (PipeSettled(j, outcome) /\ ~ActiveTransfer(XferState, j).canceled) =>
         /\ xfers'[j].events[Len(xfers'[j].events)].status = "failed"
         /\ CountStatus(xfers'[j].events, "failed") = 1
         /\ xfers'[j].result = "rejected"
         /\ xfers'[j].error = outcome
         /\ xfers'[j].pc = "done"
         /\ xfers'[j].unlinks = 0
         /\ Len(xfers') = Len(xfers)
         /\ UNCHANGED connVars]_vars

\* C15 witness: a job has failed by a stream error after bytes had flowed.
C15_Witness ==
  \E j \in DOMAIN xfers :
    /\ xfers[j].error \in {"readError", "writeError"}
    /\ xfers[j].transferredBytes > 0
    /\ xfers[j].events[Len(xfers[j].events)].status = "failed"


\* C16: once a job has its terminal event, both of its streams have been
\* ended or destroyed.
C16_NoStreamLeftOpen ==
  \A j \in DOMAIN xfers :
    (xfers[j].events # <<>> /\ IsTerminal(xfers[j].events[Len(xfers[j].events)])) =>
      /\ xfers[j].readStream \in {"ended", "destroyed"}
      /\ xfers[j].writeStream \in {"ended", "destroyed"}

\* The same for the jobs that were canceled: this part rests on the code of
\* the service alone, not on what a stream does when it reports an error.
C16_NoStreamLeftOpenAfterCancel ==
  \A j \in DOMAIN xfers :
    (xfers[j].events # <<>> /\ xfers[j].events[Len(xfers[j].events)].status = "canceled") =>
      /\ xfers[j].readStream \in {"ended", "destroyed"}
      /\ xfers[j].writeStream \in {"ended", "destroyed"}


(***************************************************************************)
(* Remote paths and entry names: strings are sequences of characters.      *)
(***************************************************************************)
Chars == {"/", ".", "a", " "}

\* Bound: the length of the entry names that are enumerated in full.
MaxNameLen == 1

Strings(n) == UNION {[1..k -> Chars] : k \in 0..n}

RECURSIVE TrimStart(_)
TrimStart(str) ==
  IF str # <<>> /\ Head(str) = " " THEN TrimStart(Tail(str)) ELSE str

RECURSIVE TrimEnd(_)
TrimEnd(str) ==
  IF str # <<>> /\ str[Len(str)] = " " THEN TrimEnd(SubSeq(str, 1, Len(str) - 1)) ELSE str

\* String.prototype.trim
trim(str) == TrimEnd(TrimStart(str))

normalizeRemotePath(targetPath) ==
  LET trimmed == trim(targetPath)
  IN  IF trimmed = <<>> THEN <<".">> ELSE trimmed

\* normalizeEntryName without its checks: the name as given
normalizeEntryNameUnchecked(name) == [threw |-> FALSE, value |-> name]

\* normalizeEntryName: the trimmed name, or a thrown error
normalizeEntryName(name) ==
  LET trimmed == trim(name)
  IN  IF Len(trimmed) = 0
        THEN [threw |-> TRUE, value |-> "is required"]
      ELSE IF trimmed = <<".">> \/ trimmed = <<".", ".">>
        THEN [threw |-> TRUE, value |-> "cannot be . or .."]
      ELSE IF \E i \in DOMAIN trimmed : trimmed[i] = "/"
        THEN [threw |-> TRUE, value |-> "cannot contain /"]
      ELSE [threw |-> FALSE, value |-> trimmed]

\* assertPathIsNotRoot: whether it throws
assertPathIsNotRootNever(targetPath) == FALSE

assertPathIsNotRoot(targetPath) == targetPath = <<"/">>

\* posixPath.dirname
dirname(path) ==
  IF path = <<>>
    THEN <<".">>
    ELSE LET hasRoot == path[1] = "/"
             \* the slashes that follow a non-slash character at a later index
             ends == {i \in 2..Len(path) :
                        /\ path[i] = "/"
                        /\ \E k \in (i + 1)..Len(path) : path[k] # "/"}
         IN  IF ends = {}
               THEN IF hasRoot THEN <<"/">> ELSE <<".">>
               ELSE LET end == CHOOSE i \in ends : \A k \in ends : k <= i
                    IN  IF hasRoot /\ end = 2 THEN <<"/", "/">> ELSE SubSeq(path, 1, end - 1)

\* the segments of a path between its slashes
RECURSIVE Segments(_, _)
Segments(path, current) ==
  IF path = <<>>
    THEN <<current>>
    ELSE IF Head(path) = "/"
      THEN <<current>> \o Segments(Tail(path), <<>>)
      ELSE Segments(Tail(path), Append(current, Head(path)))

\* normalizeString of posixPath: drops empty and `.` segments, resolves `..`
RECURSIVE ResolveSegments(_, _, _)
ResolveSegments(segments, resolved, allowAboveRoot) ==
  IF segments = <<>>
    THEN resolved
    ELSE LET seg == Head(segments)
             rest == Tail(segments)
         IN  IF seg = <<>> \/ seg = <<".">>
               THEN ResolveSegments(rest, resolved, allowAboveRoot)
             ELSE IF seg = <<".", ".">>
               THEN IF resolved # <<>> /\ resolved[Len(resolved)] # <<".", ".">>
                      THEN ResolveSegments(rest, SubSeq(resolved, 1, Len(resolved) - 1), allowAboveRoot)
                      ELSE IF allowAboveRoot
                        THEN ResolveSegments(rest, Append(resolved, seg), allowAboveRoot)
                        ELSE ResolveSegments(rest, resolved, allowAboveRoot)
             ELSE ResolveSegments(rest, Append(resolved, seg), allowAboveRoot)

RECURSIVE JoinSegments(_)
JoinSegments(segments) ==
  IF segments = <<>> THEN <<>>
  ELSE IF Len(segments) = 1 THEN Head(segments)
  ELSE Head(segments) \o <<"/">> \o JoinSegments(Tail(segments))

\* posixPath.normalize
normalize(path) ==
  IF path = <<>>
    THEN <<".">>
    ELSE LET isAbsolute == path[1] = "/"
             trailingSeparator == path[Len(path)] = "/"
             body == JoinSegments(ResolveSegments(Segments(path, <<>>), <<>>, ~isAbsolute))
         IN  IF body = <<>>
               THEN IF isAbsolute THEN <<"/">>
                    ELSE IF trailingSeparator THEN <<".", "/">> ELSE <<".">>
               ELSE (IF isAbsolute THEN <<"/">> ELSE <<>>) \o body
                      \o (IF trailingSeparator THEN <<"/">> ELSE <<>>)

\* posixPath.join of two arguments
join(left, right) ==
  IF left = <<>> /\ right = <<>> THEN <<".">>
  ELSE IF left = <<>> THEN normalize(right)
  ELSE IF right = <<>> THEN normalize(left)
  ELSE normalize(left \o <<"/">> \o right)


(***************************************************************************)
(* The SFTP operations of TerminalService on the connection of a tab.      *)
(* sftpCalls[i] is the i-th invocation; requests are the requests it has   *)
(* sent to the server, `sftp` being the opening of the sub-channel.        *)
(***************************************************************************)
\* Bound: SFTP operations invoked in one behaviour.
MaxSftpCalls == 2

NotConnectedError == "Terminal tab is not connected."
FallbackModeError == "SFTP is unavailable in system ssh fallback mode."

SftpPaths == {<<"/">>, <<" ", "/">>, <<"/", "a", " ">>, <<"/", "b">>}

\* The entry names: every string up to MaxNameLen, and `..`, a name to trim
\* and a name that is `.` once trimmed.
SftpNames == Strings(MaxNameLen) \cup {<<".", ".">>, <<" ", "a">>, <<".", " ">>}

\* The invocations: operation and arguments.
SftpInputs ==
  [op : {"createDirectory", "renamePath"}, path : SftpPaths,
   name : SftpNames, kind : {""}]
  \cup [op : {"deletePath"}, path : SftpPaths, name : {<<>>},
         kind : {"directory", "file", "symlink"}]
  \cup [op : {"listDirectory"}, path : SftpPaths, name : {<<>>}, kind : {""}]
  \cup [op : {"uploadFile", "downloadFile"}, path : {<<>>}, name : {<<>>}, kind : {""}]

getConnectedConnection(tabId) ==
  LET c == connections[tabId]
  IN  IF c = None \/ conns[c].closed
        THEN [threw |-> TRUE, error |-> NotConnectedError, conn |-> None]
        ELSE [threw |-> FALSE, error |-> "", conn |-> c]

getConnectedSsh2ConnectionAnyMode(tabId) == getConnectedConnection(tabId)

getConnectedSsh2Connection(tabId) ==
  LET r == getConnectedConnection(tabId)
  IN  IF r.threw
        THEN r
        ELSE IF conns[r.conn].mode # "ssh2"
          THEN [threw |-> TRUE, error |-> FallbackModeError, conn |-> None]
          ELSE r

SftpRequest(kind, path, name) == [kind |-> kind, path |-> path, name |-> name]

SftpReject(call, message) == [call EXCEPT !.pc = "done", !.result = "rejected", !.error = message]

SftpSend(call, request, pc) == [call EXCEPT !.pc = pc, !.requests = Append(@, request)]

\* An operation from the return of ensureSftp to its next await or its end.
AfterEnsureSftp(call) ==
  IF call.op = "createDirectory"
    THEN LET safeName == normalizeEntryName(call.name)
         IN  IF safeName.threw
               THEN SftpReject(call, safeName.value)
               ELSE SftpSend(call, SftpRequest("mkdir",
                               join(normalizeRemotePath(call.path), safeName.value),
                               safeName.value), "remote")
  ELSE IF call.op = "renamePath"
    THEN LET normalizedSourcePath == normalizeRemotePath(call.path)
             safeName == normalizeEntryName(call.name)
         IN  IF assertPathIsNotRoot(normalizedSourcePath)
               THEN SftpReject(call, "Operation on root path is not allowed.")
             ELSE IF safeName.threw
               THEN SftpReject(call, safeName.value)
             ELSE IF join(dirname(normalizedSourcePath), safeName.value) = normalizedSourcePath
               THEN [call EXCEPT !.pc = "done", !.result = "resolved"]
             ELSE SftpSend(call, SftpRequest("rename", normalizedSourcePath, safeName.value), "remote")
  ELSE IF call.op = "deletePath"
    THEN LET normalizedTargetPath == normalizeRemotePath(call.path)
         IN  IF assertPathIsNotRoot(normalizedTargetPath)
               THEN SftpReject(call, "Operation on root path is not allowed.")
               ELSE SftpSend(call, SftpRequest(IF call.kind = "directory" THEN "rmdir" ELSE "unlink",
                                               normalizedTargetPath, <<>>), "remote")
  ELSE IF call.op = "listDirectory"
    THEN SftpSend(call, SftpRequest("realpath", normalizeRemotePath(call.path), <<>>), "realPath")
  ELSE [call EXCEPT !.pc = "transfer"]

\* uploadFile / downloadFile go on with their transfer (xfers) once the
\* sub-channel is there.
StartTransfer(call, xs) ==
  IF call.pc = "transfer"
    THEN Append(xs, NewTransfer(IF call.op = "uploadFile" THEN "upload" ELSE "download", call.tab, "x1"))
    ELSE xs

\* An operation from its invocation to its first await that waits for the
\* server, or to its end.
SftpCall(tabId, input) ==
  /\ Len(sftpCalls) < MaxSftpCalls
  /\ input.op \in {"uploadFile", "downloadFile"} => Len(xfers) < MaxXfers
  /\ LET r == getConnectedSsh2Connection(tabId)
         call == [op |-> input.op, tab |-> tabId, conn |-> r.conn, path |-> input.path,
                  name |-> input.name, kind |-> input.kind, pc |-> "start",
                  result |-> "pending", error |-> "", requests |-> <<>>]
         next == IF r.threw
                   THEN SftpReject(call, r.error)
                   ELSE IF conns[r.conn].sftp
                     THEN AfterEnsureSftp(call)
                     ELSE SftpSend(call, SftpRequest("sftp", <<>>, <<>>), "ensureSftp")
     IN  /\ sftpCalls' = Append(sftpCalls, next)
         /\ xfers' = StartTransfer(next, xfers)
  /\ UNCHANGED <<activeUploadTransfers, activeDownloadTransfers, connVars, queueVars, reconnectVars, ioVars, tripVars, ensureVars>>
  /\ UNCHANGED listing

\* The callback of client.sftp: ensureSftp stores the channel in the
\* connection object and the operation goes on.
EnsureSftpDone(i, ok) ==
  /\ sftpCalls[i].pc = "ensureSftp"
  /\ LET c == sftpCalls[i].conn
         next == IF ok THEN AfterEnsureSftp(sftpCalls[i])
                       ELSE SftpReject(sftpCalls[i], "sftp")
     IN  /\ next.pc = "transfer" => Len(xfers) < MaxXfers
         /\ sftpCalls' = [sftpCalls EXCEPT ![i] = next]
         /\ xfers' = StartTransfer(next, xfers)
         /\ conns' = IF ok /\ c \in DOMAIN conns THEN [conns EXCEPT ![c].sftp = TRUE] ELSE conns
  /\ UNCHANGED <<connections, nextConn, calls, log>>
  /\ UNCHANGED <<activeUploadTransfers, activeDownloadTransfers, queueVars, reconnectVars, ioVars, tripVars, ensureVars>>
  /\ UNCHANGED listing

\* The callback of a realpath, readdir, mkdir, rename, rmdir or unlink request.
SftpRemoteDone(i, ok) ==
  /\ sftpCalls[i].pc \in {"realPath", "readDirectory", "remote"}
  /\ sftpCalls' = [sftpCalls EXCEPT ![i] =
        IF ~ok THEN SftpReject(@, "remote")
        ELSE IF @.pc = "realPath"
          THEN SftpSend(@, SftpRequest("readdir", <<"/">>, <<>>), "readDirectory")
          ELSE [@ EXCEPT !.pc = "done", !.result = "resolved"]]
  /\ UNCHANGED <<connVars, queueVars, xferVars, reconnectVars, ioVars, listing, tripVars, ensureVars>>

\* The states a tab's connection is in when an SFTP operation is invoked: no
\* connection, an embedded connection with its shell open, or (private-key
\* session) the native fallback; each built by the handlers of a connect.
SftpScenarios(tabId) ==
  IF TabSession(tabId) = "key" THEN {"none", "ssh2", "native"} ELSE {"none", "ssh2"}

ConnectedBy(st, tabId, k, scenario) ==
  IF scenario = "none"
    THEN st
    ELSE LET c == st.next
             s1 == connectViaSsh2(emit(st, tabId, Event("connecting", None, k)), k, TRUE)
         IN  IF scenario = "ssh2"
               THEN onShell(onReady(s1, c), c, FALSE)
               ELSE onClose(onError(s1, c, "connection reset before handshake", TRUE), c)

ScenarioCalls(tabId, scenario) ==
  IF scenario = "none"
    THEN <<>>
    ELSE <<[tab |-> tabId, sid |-> TabSession(tabId), pc |-> "resolved"]>>

InitSftp ==
  \E s1 \in SftpScenarios("t1"), s2 \in SftpScenarios("t2") :
    /\ calls = ScenarioCalls("t1", s1) \o ScenarioCalls("t2", s2)
    /\ LET st0 == [reg |-> [t \in Tabs |-> None], cs |-> <<>>,
                   lg |-> [t \in Tabs |-> <<>>], next |-> 1]
           st1 == ConnectedBy(st0, "t1", 1, s1)
           st2 == ConnectedBy(st1, "t2", Len(calls), s2)
       IN  /\ connections = st2.reg
           /\ conns = [c \in {x \in DOMAIN st2.cs : ~Collectable(st2, x)} |-> st2.cs[c]]
           /\ nextConn = st2.next
           /\ log = st2.lg
    /\ uploadQueue = <<>>
    /\ runningUploadIds = {}
    /\ connectedTabIds = {}
    /\ terminalTabs = {}
    /\ closedTabs = {}
    /\ uploadJobs = <<>>
    /\ activeUploadTransfers = <<>>
    /\ activeDownloadTransfers = <<>>
    /\ xfers = <<>>
    /\ sftpCalls = <<>>
    /\ listing = NoListing
    /\ reconnectAttempts = [t \in Tabs |-> 0]
    /\ reconnectTimers = [t \in Tabs |-> 0]
    /\ workspaceTabs = {}
    /\ autoReconnect = TRUE
    /\ connectPhase = [t \in Tabs |-> "idle"]
    /\ scheduled = [t \in Tabs |-> <<>>]
    /\ delayPreference = reconnectDelaySeconds
    /\ ioCalls = <<>>
    /\ NoTrip
    /\ NoEnsure

NextSftp ==
  \/ \E t \in Tabs, input \in SftpInputs : SftpCall(t, input)
  \/ \E i \in DOMAIN sftpCalls, ok \in BOOLEAN : EnsureSftpDone(i, ok)
  \/ \E i \in DOMAIN sftpCalls, ok \in BOOLEAN : SftpRemoteDone(i, ok)

SpecSftp == InitSftp /\ [][NextSftp]_vars

IsRootOperation(call) ==
  /\ call.op \in {"renamePath", "deletePath"}
  /\ trim(call.path) = <<"/">>

\* C17: a renamePath or deletePath of the root path sends no request at
\* all, not even the opening of the sub-channel, changes nothing in the
\* connection and ends rejected.
C17_RootOperationSendsNothing ==
  \A i \in DOMAIN sftpCalls :
    IsRootOperation(sftpCalls[i]) =>
      /\ sftpCalls[i].requests = <<>>
      /\ sftpCalls[i].pc = "done" => sftpCalls[i].result = "rejected"

\* The part of C17 that holds: no rename, rmdir or unlink of the root path
\* is ever sent, and the call never resolves.
C17_NoRootRenameOrDelete ==
  \A i \in DOMAIN sftpCalls :
    IsRootOperation(sftpCalls[i]) =>
      /\ \A r \in DOMAIN sftpCalls[i].requests : sftpCalls[i].requests[r].kind = "sftp"
      /\ sftpCalls[i].result # "resolved"

BadEntryName(name) ==
  \/ trim(name) = <<>>
  \/ trim(name) = <<".">>
  \/ trim(name) = <<".", ".">>
  \/ \E i \in DOMAIN trim(name) : trim(name)[i] = "/"

\* C18: createDirectory and renamePath never send a mkdir or rename whose
\* new entry name is, after trimming, empty, `.`, `..` or holds a `/`: the
\* name of every such request is the trimmed name given and is none of
\* these, and a call with such a name is never resolved but ends rejected.
C18_EntryNameValidated ==
  \A i \in DOMAIN sftpCalls :
    LET call == sftpCalls[i]
    IN  call.op \in {"createDirectory", "renamePath"} =>
          /\ \A r \in DOMAIN call.requests :
               call.requests[r].kind \in {"mkdir", "rename"} =>
                 /\ ~BadEntryName(call.requests[r].name)
                 /\ call.requests[r].name = trim(call.name)
          /\ BadEntryName(call.name) =>
               /\ call.result # "resolved"
               /\ \A r \in DOMAIN call.requests : call.requests[r].kind = "sftp"
               /\ call.pc = "done" => call.result = "rejected"

\* C18 witness: with the sub-channel open, a createDirectory was rejected
\* for a name that is `..` and a renamePath sent a rename with a trimmed name.
C18_Witness ==
  /\ \E i \in DOMAIN sftpCalls :
       /\ sftpCalls[i].op = "createDirectory"
       /\ sftpCalls[i].name = <<".", ".">>
       /\ sftpCalls[i].error = "cannot be . or .."
  /\ \E i \in DOMAIN sftpCalls :
       /\ sftpCalls[i].op = "renamePath"
       /\ sftpCalls[i].name = <<" ", "a">>
       /\ \E r \in DOMAIN sftpCalls[i].requests : sftpCalls[i].requests[r].kind = "rename"

\* The operation invoked by a step, if the step invokes one.
InvokedCall == sftpCalls'[Len(sftpCalls')]

HasNativeConnection(tabId) ==
  /\ connections[tabId] # None
  /\ ~conns[connections[tabId]].closed
  /\ conns[connections[tabId]].mode = "native"

HasNoLiveConnection(tabId) ==
  connections[tabId] = None \/ conns[connections[tabId]].closed

RejectedWithoutEffect(call, message) ==
  /\ call.pc = "done"
  /\ call.result = "rejected"
  /\ call.error = message
  /\ call.requests = <<>>
  /\ UNCHANGED <<xferVars, connVars>>

\* C19: every SFTP or transfer operation invoked on a tab whose connection is
\* in native mode fails with the fallback-mode error, and on a tab with no
\* live connection with the not-connected error; the two errors differ, and
\* in both cases no remote request is sent, no transfer is registered, no
\* transfer event is emitted and the connection is left as it was.
C19_UnavailableOperationFails ==
  [][ /\ FallbackModeError # NotConnectedError
      /\ Len(sftpCalls') = Len(sftpCalls) + 1 =>
           /\ HasNativeConnection(InvokedCall.tab) =>
                RejectedWithoutEffect(InvokedCall, FallbackModeError)
           /\ HasNoLiveConnection(InvokedCall.tab) =>
                RejectedWithoutEffect(InvokedCall, NotConnectedError) ]_vars

\* A transfer refused on a native connection and an operation refused on a
\* tab without connection.
C19_Witness ==
  /\ \E i \in DOMAIN sftpCalls :
       /\ sftpCalls[i].op \in {"uploadFile", "downloadFile"}
       /\ HasNativeConnection(sftpCalls[i].tab)
       /\ sftpCalls[i].error = FallbackModeError
  /\ \E i \in DOMAIN sftpCalls :
       /\ HasNoLiveConnection(sftpCalls[i].tab)
       /\ sftpCalls[i].error = NotConnectedError
  /\ xfers = <<>>

(***************************************************************************)
(* Automatic reconnection in the terminal workspace.  connectPhase is what *)
(* the workspace has seen of a tab's connect attempt: "idle" (none),       *)
(* "calling" (terminalApi.connect not settled), "open" (settled, no status *)
(* yet), "connected", "errored" (error event seen, closed event to come),  *)
(* "callingLate" (a new connect not settled while the closed event of the  *)
(* previous connection is still to come).  reconnectTimers holds the delay *)
(* of the tab's pending timer, 0 when there is none; scheduled is the      *)
(* history of the delays scheduled for the tab since its last `connected`  *)
(* status.                                                                 *)
(***************************************************************************)
MaxSchedules == 6

MaxDelaySeconds == 60

ReconnectState ==
  [attempts |-> reconnectAttempts, timers |-> reconnectTimers, history |-> scheduled]

InstallReconnect(rs) ==
  /\ reconnectAttempts' = rs.attempts
  /\ reconnectTimers' = rs.timers
  /\ scheduled' = rs.history

clearReconnectStateKeepsTimer(rs, tabId) == [rs EXCEPT !.attempts[tabId] = 0]

clearReconnectState(rs, tabId) ==
  [rs EXCEPT !.attempts[tabId] = 0, !.timers[tabId] = 0]

\* The delay of attempt number nextAttempt.
delaySeconds(nextAttempt) ==
  LET baseDelaySeconds == Min(MaxDelaySeconds, Max(1, delayPreference))
      exponent == Min(nextAttempt - 1, 5)
  IN  Min(MaxDelaySeconds, baseDelaySeconds * 2^exponent)

WillSchedule(rs, tabId) ==
  autoReconnect /\ rs.timers[tabId] = 0 /\ tabId \in workspaceTabs

scheduleReconnect(rs, tabId) ==
  IF ~WillSchedule(rs, tabId)
    THEN rs
    ELSE LET nextAttempt == rs.attempts[tabId] + 1
         IN  [rs EXCEPT !.attempts[tabId] = nextAttempt,
                        !.timers[tabId] = delaySeconds(nextAttempt),
                        !.history[tabId] = Append(@, delaySeconds(nextAttempt))]

\* A tab is added to the workspace: its terminal is created and connectTab
\* is called.
OpenTab(tabId) ==
  /\ tabId \notin workspaceTabs
  /\ workspaceTabs' = workspaceTabs \cup {tabId}
  /\ connectPhase' = [connectPhase EXCEPT ![tabId] = "calling"]
  /\ UNCHANGED <<reconnectAttempts, reconnectTimers, autoReconnect, scheduled>>
  /\ UNCHANGED <<connVars, queueVars, xferVars, sftpVars, delayPreference, ioVars, tripVars, ensureVars>>

\* terminalApi.connect resolves: the connection object is registered in the
\* main process, its handshake still to come.
ConnectResolved(tabId) ==
  /\ connectPhase[tabId] \in {"calling", "callingLate"}
  /\ connectPhase' = [connectPhase EXCEPT ![tabId] = "open"]
  /\ InstallReconnect(clearReconnectState(ReconnectState, tabId))
  /\ UNCHANGED <<workspaceTabs, autoReconnect>>
  /\ UNCHANGED <<connVars, queueVars, xferVars, sftpVars, delayPreference, ioVars, tripVars, ensureVars>>

\* terminalApi.connect rejects; the closed event of the previous connection,
\* if it has not come yet, is still to come.
ConnectRejected(tabId) ==
  /\ connectPhase[tabId] \in {"calling", "callingLate"}
  /\ connectPhase' = [connectPhase EXCEPT ![tabId] =
                        IF @ = "callingLate" THEN "errored" ELSE "idle"]
  /\ UNCHANGED <<reconnectAttempts, reconnectTimers, workspaceTabs, autoReconnect, scheduled>>
  /\ UNCHANGED <<connVars, queueVars, xferVars, sftpVars, delayPreference, ioVars, tripVars, ensureVars>>

\* The event listener on a status event `connected`.
ConnectedEvent(tabId) ==
  /\ tabId \in workspaceTabs
  /\ connectPhase[tabId] = "open"
  /\ connectPhase' = [connectPhase EXCEPT ![tabId] = "connected"]
  /\ InstallReconnect([clearReconnectState(ReconnectState, tabId) EXCEPT !.history[tabId] = <<>>])
  /\ UNCHANGED <<workspaceTabs, autoReconnect>>
  /\ UNCHANGED <<connVars, queueVars, xferVars, sftpVars, delayPreference, ioVars, tripVars, ensureVars>>

\* The event listener on an error event.
ErrorEvent(tabId) ==
  /\ tabId \in workspaceTabs
  /\ connectPhase[tabId] \in {"open", "connected"}
  /\ WillSchedule(ReconnectState, tabId) => Len(scheduled[tabId]) < MaxSchedules
  /\ connectPhase' = [connectPhase EXCEPT ![tabId] = "errored"]
  /\ InstallReconnect(scheduleReconnect(ReconnectState, tabId))
  /\ UNCHANGED <<workspaceTabs, autoReconnect>>
  /\ UNCHANGED <<connVars, queueVars, xferVars, sftpVars, delayPreference, ioVars, tripVars, ensureVars>>

\* The event listener on a status event `closed`.
ClosedEvent(tabId) ==
  /\ tabId \in workspaceTabs
  /\ connectPhase[tabId] \in {"open", "connected", "errored", "callingLate"}
  /\ WillSchedule(ReconnectState, tabId) => Len(scheduled[tabId]) < MaxSchedules
  /\ connectPhase' = [connectPhase EXCEPT ![tabId] =
                        IF @ = "callingLate" THEN "calling" ELSE "idle"]
  /\ InstallReconnect(scheduleReconnect(ReconnectState, tabId))
  /\ UNCHANGED <<workspaceTabs, autoReconnect>>
  /\ UNCHANGED <<connVars, queueVars, xferVars, sftpVars, delayPreference, ioVars, tripVars, ensureVars>>

\* The callback of the tab's reconnect timer.
TimerFires(tabId) ==
  /\ reconnectTimers[tabId] # 0
  /\ connectPhase[tabId] \in {"idle", "errored"}
  /\ LET rs == [ReconnectState EXCEPT !.timers[tabId] = 0]
     IN  IF tabId \notin workspaceTabs
           THEN /\ InstallReconnect(clearReconnectState(rs, tabId))
                /\ UNCHANGED connectPhase
           ELSE /\ InstallReconnect(rs)
                /\ connectPhase' = [connectPhase EXCEPT ![tabId] =
                                      IF @ = "errored" THEN "callingLate" ELSE "calling"]
  /\ UNCHANGED <<workspaceTabs, autoReconnect>>
  /\ UNCHANGED <<connVars, queueVars, xferVars, sftpVars, delayPreference, ioVars, tripVars, ensureVars>>

\* A tab is removed from the workspace: its reconnect state is cleared and
\* its connection closed.
CloseTab(tabId) ==
  /\ tabId \in workspaceTabs
  /\ workspaceTabs' = workspaceTabs \ {tabId}
  /\ connectPhase' = [connectPhase EXCEPT ![tabId] = "idle"]
  /\ InstallReconnect([clearReconnectState(ReconnectState, tabId) EXCEPT !.history[tabId] = <<>>])
  /\ UNCHANGED autoReconnect
  /\ UNCHANGED <<connVars, queueVars, xferVars, sftpVars, delayPreference, ioVars, tripVars, ensureVars>>

\* The auto-reconnect preference is switched; switched off, every timer and
\* every attempt counter is dropped.
SetAutoReconnect(value) ==
  /\ autoReconnect # value
  /\ autoReconnect' = value
  /\ IF value
       THEN UNCHANGED <<reconnectAttempts, reconnectTimers, scheduled>>
       ELSE /\ reconnectAttempts' = [t \in Tabs |-> 0]
            /\ reconnectTimers' = [t \in Tabs |-> 0]
            /\ scheduled' = [t \in Tabs |-> <<>>]
  /\ UNCHANGED <<workspaceTabs, connectPhase>>
  /\ UNCHANGED <<connVars, queueVars, xferVars, sftpVars, delayPreference, ioVars, tripVars, ensureVars>>

NextReconnect ==
  \/ \E t \in Tabs : OpenTab(t)
  \/ \E t \in Tabs : ConnectResolved(t)
  \/ \E t \in Tabs : ConnectRejected(t)
  \/ \E t \in Tabs : ConnectedEvent(t)
  \/ \E t \in Tabs : ErrorEvent(t)
  \/ \E t \in Tabs : ClosedEvent(t)
  \/ \E t \in Tabs : TimerFires(t)
  \/ \E t \in Tabs : CloseTab(t)
  \/ \E value \in BOOLEAN : SetAutoReconnect(value)

SpecReconnect == Init /\ [][NextReconnect]_vars

\* C20: for one tab, across consecutive reconnect attempts with no
\* `connected` status in between, the delay of each scheduled attempt is
\* double the previous one, up to the 60 s cap.
C20_DelayDoubles ==
  \A t \in Tabs : \A i \in 1..(Len(scheduled[t]) - 1) :
    scheduled[t][i + 1] = Min(MaxDelaySeconds, 2 * scheduled[t][i])

\* C20, second half: the attempt counter of a tab returns to its initial
\* value only on a `connected` status (or when the tab is closed or
\* auto-reconnect switched off), not when a connect call settles.
C20_CounterResetOnlyOnSuccess ==
  [][\A t \in Tabs :
       (reconnectAttempts[t] > 0 /\ reconnectAttempts'[t] = 0)
         => \/ connectPhase'[t] = "connected"
            \/ t \notin workspaceTabs'
            \/ ~autoReconnect']_vars

(***************************************************************************)
(* The delay computation of scheduleReconnect on its own: the preference   *)
(* is any value parseReconnectDelaySeconds stores, the attempt counter any *)
(* number, and the error event of an open attempt schedules the next one.  *)
(***************************************************************************)
MaxAttempt == 8

RawDelays == (0 - 1)..(MaxDelaySeconds + 2)

\* Math.trunc is the identity on the integers drawn here.
parseReconnectDelaySeconds(value) == Min(MaxDelaySeconds, Max(1, value))

InitDelay ==
  /\ connections = [t \in Tabs |-> None]
  /\ conns = <<>>
  /\ nextConn = 1
  /\ calls = <<>>
  /\ log = [t \in Tabs |-> <<>>]
  /\ uploadQueue = <<>>
  /\ runningUploadIds = {}
  /\ connectedTabIds = {}
  /\ terminalTabs = {}
  /\ closedTabs = {}
  /\ uploadJobs = <<>>
  /\ activeUploadTransfers = <<>>
  /\ activeDownloadTransfers = <<>>
  /\ xfers = <<>>
  /\ sftpCalls = <<>>
  /\ listing = NoListing
  /\ reconnectAttempts \in [Tabs -> 0..(MaxAttempt - 1)]
  /\ reconnectTimers = [t \in Tabs |-> 0]
  /\ workspaceTabs = Tabs
  /\ autoReconnect = TRUE
  /\ connectPhase = [t \in Tabs |-> "open"]
  /\ scheduled = [t \in Tabs |-> <<>>]
  /\ delayPreference \in {parseReconnectDelaySeconds(value) : value \in RawDelays}
  /\ ioCalls = <<>>
  /\ NoTrip
  /\ NoEnsure

NextDelay == \E t \in Tabs : ErrorEvent(t)

SpecDelay == InitDelay /\ [][NextDelay]_vars

ReconnectAttemptRunning(t) ==
  /\ autoReconnect
  /\ t \in workspaceTabs
  /\ Len(scheduled[t]) > 0
  /\ connectPhase[t] \in {"calling", "callingLate", "open"}

\* C22: with auto-reconnect enabled and the tab still open, a reconnect
\* attempt that fails, through an error or closed event or through the
\* connect call rejecting, leaves a further attempt scheduled.
C22_FailedAttemptReschedules ==
  [][\A t \in Tabs :
       (/\ ReconnectAttemptRunning(t)
        /\ autoReconnect' /\ t \in workspaceTabs'
        /\ \/ connectPhase'[t] = "idle"
           \/ connectPhase[t] = "open" /\ connectPhase'[t] = "errored")
         => reconnectTimers'[t] # 0]_vars

\* C22, the part that holds: an attempt that fails through an error or
\* closed event leaves a further attempt scheduled.
C22_FailedByEventReschedules ==
  [][\A t \in Tabs :
       (/\ ReconnectAttemptRunning(t)
        /\ connectPhase[t] = "open"
        /\ autoReconnect' /\ t \in workspaceTabs'
        /\ connectPhase'[t] \in {"idle", "errored"})
         => reconnectTimers'[t] # 0]_vars

\* The workspace issues a connect for the tab in this step.
ConnectIssued(t) ==
  /\ connectPhase[t] \notin {"calling", "callingLate"}
  /\ connectPhase'[t] \in {"calling", "callingLate"}

\* C23: once a tab is closed it has no pending reconnect timer, and once
\* auto-reconnect is disabled no tab has one; a connect is only issued for
\* an open tab, and a reconnect (a connect for a tab that was already open)
\* only while auto-reconnect is enabled.
C23_NoReconnectAfterCloseOrDisable ==
  [][\A t \in Tabs :
       /\ (t \notin workspaceTabs' \/ ~autoReconnect') => reconnectTimers'[t] = 0
       /\ ConnectIssued(t) => /\ t \in workspaceTabs'
                              /\ t \in workspaceTabs => autoReconnect]_vars

\* Auto-reconnect is disabled, an open tab has seen its connection fail, the
\* other tab is not open, and no timer is pending.
C23_Witness ==
  /\ ~autoReconnect
  /\ \E t \in Tabs :
       /\ t \in workspaceTabs
       /\ connectPhase[t] \in {"errored", "idle"}
       /\ \E u \in Tabs \ {t} : u \notin workspaceTabs
  /\ \A t \in Tabs : reconnectTimers[t] = 0

\* C24: a reconnect request (an error or closed event of an open tab, with
\* auto-reconnect enabled) that arrives while an attempt is already
\* scheduled is recorded and replaces the pending attempt: the attempt
\* counter advances and a newly scheduled timer takes the pending one's
\* place.
C24_SecondRequestReplacesPending ==
  [][\A t \in Tabs :
       (/\ ErrorEvent(t) \/ ClosedEvent(t)
        /\ autoReconnect /\ t \in workspaceTabs
        /\ reconnectTimers[t] # 0)
         => /\ reconnectAttempts'[t] = reconnectAttempts[t] + 1
            /\ scheduled'[t] = Append(scheduled[t], reconnectTimers'[t])]_vars

(***************************************************************************)
(* write and resize.  An invocation is recorded in ioCalls with what it    *)
(* found in the registry (conn, closed, mode) and what it sent: "none",    *)
(* "shell.write", "stdin.write" or "setWindow".                            *)
(***************************************************************************)
MaxIoCalls == 2

IoCall(op, tabId, sent) ==
  LET c == connections[tabId]
  IN  [op |-> op, tab |-> tabId, conn |-> c,
       closed |-> IF c = None THEN FALSE ELSE conns[c].closed,
       mode |-> IF c = None THEN "" ELSE conns[c].mode,
       sent |-> sent]

\* connection.shell is set once the shell callback has succeeded.
HasShell(connection) == connection.shell \in {"open", "ending", "closed"}

\* What write sends; destroyed: process.stdin.destroyed.
write(tabId, destroyed) ==
  LET c == connections[tabId]
  IN  IF c = None \/ conns[c].closed
        THEN "none"
        ELSE IF conns[c].mode = "ssh2"
          THEN IF HasShell(conns[c]) THEN "shell.write" ELSE "none"
          ELSE IF ~destroyed THEN "stdin.write" ELSE "none"

resizeAnyMode(tabId) ==
  LET c == connections[tabId]
  IN  IF c = None \/ conns[c].closed
        THEN "none"
        ELSE IF HasShell(conns[c]) \/ conns[c].mode # "ssh2" THEN "setWindow" ELSE "none"

\* What resize sends.
resize(tabId) ==
  LET c == connections[tabId]
  IN  IF c = None \/ conns[c].closed \/ conns[c].mode # "ssh2"
        THEN "none"
        ELSE IF HasShell(conns[c]) THEN "setWindow" ELSE "none"

Write(tabId, destroyed) ==
  /\ Len(ioCalls) < MaxIoCalls
  /\ ioCalls' = Append(ioCalls, IoCall("write", tabId, write(tabId, destroyed)))
  /\ UNCHANGED <<connVars, queueVars, xferVars, sftpVars, reconnectVars, tripVars, ensureVars>>

Resize(tabId) ==
  /\ Len(ioCalls) < MaxIoCalls
  /\ ioCalls' = Append(ioCalls, IoCall("resize", tabId, resize(tabId)))
  /\ UNCHANGED <<connVars, queueVars, xferVars, sftpVars, reconnectVars, tripVars, ensureVars>>

\* write and resize against the connections of two tabs, each starting with
\* no connection, an embedded connection with its shell open or the native
\* fallback, while the connections end.
NextIo ==
  \/ \E t \in Tabs, destroyed \in BOOLEAN : Write(t, destroyed)
  \/ \E t \in Tabs : Resize(t)
  \/ \E t \in Tabs : Close(t)
  \/ \E c \in DOMAIN conns : ShellClose(c)
  \/ \E c \in DOMAIN conns, m \in ErrorMessages, ok \in BOOLEAN : ClientError(c, m, ok)
  \/ \E c \in DOMAIN conns : ClientClose(c)
  \/ \E c \in DOMAIN conns : ProcessError(c)
  \/ \E c \in DOMAIN conns, x \in {"ok", "failed"} : ProcessClose(c, x)

SpecIo == InitSftp /\ [][NextIo]_vars

NoLiveConnection(call) == call.conn = None \/ call.closed

\* C25: write and resize send nothing when the tab has no registered
\* connection or its connection is closed, resize sends nothing either on a
\* native-mode connection, and in each case no event is emitted and no
\* state changes.
C25_WriteResizeNoOp ==
  [][ /\ \A i \in DOMAIN ioCalls' :
           /\ NoLiveConnection(ioCalls'[i]) => ioCalls'[i].sent = "none"
           /\ (ioCalls'[i].op = "resize" /\ ioCalls'[i].mode = "native")
                => ioCalls'[i].sent = "none"
      /\ Len(ioCalls') > Len(ioCalls)
           => UNCHANGED <<connVars, queueVars, xferVars, sftpVars, reconnectVars>> ]_vars

\* A resize on a live native connection and a write on a tab without
\* connection, neither of which sent anything.
C25_Witness ==
  /\ \E i \in DOMAIN ioCalls :
       /\ ioCalls[i].op = "resize" /\ ioCalls[i].mode = "native" /\ ~ioCalls[i].closed
       /\ ioCalls[i].sent = "none"
  /\ \E i \in DOMAIN ioCalls :
       /\ ioCalls[i].op = "write" /\ ioCalls[i].conn = None
       /\ ioCalls[i].sent = "none"

\* What belongs to a tab: its registry entry, its connection objects and its
\* event stream; its jobs in the two transfer registries and its transfer
\* calls with their events.
ConnView(u) ==
  [reg |-> connections[u], lg |-> log[u],
   cs |-> [c \in {c \in DOMAIN conns : conns[c].tab = u} |-> conns[c]]]

XferView(u) ==
  [up |-> [k \in {k \in DOMAIN activeUploadTransfers :
                    xfers[activeUploadTransfers[k].call].tab = u} |-> activeUploadTransfers[k]],
   down |-> [k \in {k \in DOMAIN activeDownloadTransfers :
                      xfers[activeDownloadTransfers[k].call].tab = u} |-> activeDownloadTransfers[k]],
   xs |-> [j \in {j \in DOMAIN xfers : xfers[j].tab = u} |-> xfers[j]]]

\* The step is an operation on tab t, or a step of a call or a handler of a
\* connection of tab t.
ConnActsOn(t) ==
  \/ ConnectCall(t, TabSession(t))
  \/ \E k \in DOMAIN calls :
       /\ calls[k].tab = t
       /\ \/ \E stored \in BOOLEAN : ConnectGetById(k, stored)
          \/ \E ok \in BOOLEAN : ConnectBuildConfig(k, ok)
  \/ Close(t)
  \/ \E destroyed \in BOOLEAN : Write(t, destroyed)
  \/ Resize(t)
  \/ \E c \in DOMAIN conns :
       /\ conns[c].tab = t
       /\ \/ ClientReady(c)
          \/ \E e \in BOOLEAN : ShellCallback(c, e)
          \/ ShellClose(c)
          \/ \E m \in ErrorMessages, ok \in BOOLEAN : ClientError(c, m, ok)
          \/ ClientClose(c)
          \/ ProcessError(c)
          \/ \E x \in {"ok", "failed"} : ProcessClose(c, x)

XferActsOn(t) ==
  \/ \E d \in {"upload", "download"}, id \in TransferIds : TransferCall(d, t, id)
  \/ \E id \in TransferIds : cancelUpload(t, id) \/ cancelDownload(t, id)
  \/ \E j \in DOMAIN xfers :
       /\ xfers[j].tab = t
       /\ \/ \E ok \in BOOLEAN, size \in FileSizes :
               \/ UploadStatDone(j, ok, size)
               \/ \E mode \in StatModes : DownloadStatDone(j, ok, size, mode)
          \/ \E ok \in BOOLEAN : DownloadMkdirDone(j, ok)
          \/ PipeData(j)
          \/ \E outcome \in PipeOutcomes : PipeSettled(j, outcome)
          \/ UnlinkDone(j)

DirectoryModes == 16384..20479

\* C27: a downloadFile whose remote stat reports a directory is rejected
\* before any job is registered: it has no registry entry, no transfer
\* event, no stream (no local file) and it never got to the creation of the
\* local directory.
C27_DirectoryDownloadRejected ==
  \A j \in DOMAIN xfers :
    (xfers[j].direction = "download" /\ xfers[j].statMode \in DirectoryModes) =>
      /\ xfers[j].pc = "done"
      /\ xfers[j].result = "rejected"
      /\ xfers[j].error = DirectoryError
      /\ ~xfers[j].registered
      /\ xfers[j].events = <<>>
      /\ xfers[j].readStream = "none" /\ xfers[j].writeStream = "none"
      /\ \A k \in DOMAIN activeDownloadTransfers : activeDownloadTransfers[k].call # j

\* A download of a directory was rejected while another download is active.
C27_Witness ==
  \E j \in DOMAIN xfers, k \in ActiveJobs(xfers) :
    /\ xfers[j].direction = "download"
    /\ xfers[j].statMode \in DirectoryModes
    /\ xfers[j].error = DirectoryError
    /\ xfers[k].direction = "download"

(***************************************************************************)
(* listDirectory from the answers of the server (realPath: cwd,            *)
(* readDirectory: rows of filename and mode) to its result.  Names and     *)
(* paths are sequences of characters.                                      *)
(***************************************************************************)
MaxRows == 3

detectSftpEntryKind(mode) ==
  LET fileType == (mode \div 4096) % 16
  IN  IF fileType = 4 THEN "directory"
      ELSE IF fileType = 8 THEN "file"
      ELSE IF fileType = 10 THEN "symlink"
      ELSE "other"

\* (mode & mask) !== 0, mask a power of two
HasBit(mode, mask) == (mode \div mask) % 2 = 1

formatPosixModeNoOverlay(mode, fallbackKind) ==
  <<"-">> \o [index \in 1..9 |->
                IF HasBit(mode, 2^(9 - index)) THEN <<"r", "w", "x">>[((index - 1) % 3) + 1] ELSE "-"]

formatPosixMode(mode, fallbackKind) ==
  LET fileType == (mode \div 4096) % 16
      typeChar == IF fileType = 4 THEN "d"
                  ELSE IF fileType = 10 THEN "l"
                  ELSE IF fileType = 8 THEN "-"
                  ELSE IF fallbackKind = "directory" THEN "d"
                  ELSE IF fallbackKind = "symlink" THEN "l"
                  ELSE "-"
      perms == <<256, 128, 64, 32, 16, 8, 4, 2, 1>>
      chars == <<"r", "w", "x", "r", "w", "x", "r", "w", "x">>
      bits0 == [index \in 1..9 |-> IF HasBit(mode, perms[index]) THEN chars[index] ELSE "-"]
      bits1 == IF HasBit(mode, 2048)
                 THEN [bits0 EXCEPT ![3] = IF @ = "x" THEN "s" ELSE "S"] ELSE bits0
      bits2 == IF HasBit(mode, 1024)
                 THEN [bits1 EXCEPT ![6] = IF @ = "x" THEN "s" ELSE "S"] ELSE bits1
      bits3 == IF HasBit(mode, 512)
                 THEN [bits2 EXCEPT ![9] = IF @ = "x" THEN "t" ELSE "T"] ELSE bits2
  IN  <<typeChar>> \o bits3

toSftpEntry(parentPath, row) ==
  LET kind == detectSftpEntryKind(row.mode)
  IN  [name |-> row.filename, path |-> join(parentPath, row.filename), kind |-> kind,
       permissions |-> formatPosixMode(row.mode, kind)]

\* The letters that differ in case only.
FoldCase(char) == IF char = "A" THEN "a" ELSE IF char = "B" THEN "b" ELSE char

\* The primary collation order of the characters of the names.
CollationRank(char) ==
  LET c == FoldCase(char)
  IN  IF c = " " THEN 1 ELSE IF c = "." THEN 2 ELSE IF c = "/" THEN 3 ELSE IF c = "a" THEN 4 ELSE 5

\* left.localeCompare(right, undefined, { sensitivity: "base" })
RECURSIVE localeCompare(_, _)
localeCompare(left, right) ==
  IF left = <<>> /\ right = <<>> THEN 0
  ELSE IF left = <<>> THEN 0 - 1
  ELSE IF right = <<>> THEN 1
  ELSE IF CollationRank(Head(left)) < CollationRank(Head(right)) THEN 0 - 1
  ELSE IF CollationRank(Head(left)) > CollationRank(Head(right)) THEN 1
  ELSE localeCompare(Tail(left), Tail(right))

compareSftpEntriesByName(left, right) == localeCompare(left.name, right.name)

compareSftpEntries(left, right) ==
  IF left.kind = "directory" /\ right.kind # "directory" THEN 0 - 1
  ELSE IF left.kind # "directory" /\ right.kind = "directory" THEN 1
  ELSE localeCompare(left.name, right.name)

\* Array.prototype.sort is stable: an element goes behind the elements that
\* do not compare greater than it.
InsertEntry(sorted, entry) ==
  LET before == {i \in DOMAIN sorted : compareSftpEntries(entry, sorted[i]) < 0}
      at == IF before = {} THEN Len(sorted) + 1
            ELSE CHOOSE i \in before : \A k \in before : i <= k
  IN  SubSeq(sorted, 1, at - 1) \o <<entry>> \o SubSeq(sorted, at, Len(sorted))

RECURSIVE SortEntries(_, _)
SortEntries(sorted, entries) ==
  IF entries = <<>> THEN sorted
  ELSE SortEntries(InsertEntry(sorted, Head(entries)), Tail(entries))

dirnamePosix(pathValue) ==
  LET next == dirname(pathValue)
  IN  IF next = <<".">> \/ next = pathValue
        THEN IF pathValue = <<"/">> THEN [isNull |-> TRUE, value |-> <<>>]
                                    ELSE [isNull |-> FALSE, value |-> <<"/">>]
        ELSE [isNull |-> FALSE, value |-> next]

\* listDirectory from the answer of readDirectory to its return.
ListDirectoryDone ==
  /\ listing.cwd # <<>>
  /\ ~listing.done
  /\ LET cwd == listing.cwd
         rows == SelectSeq(listing.rows,
                           LAMBDA row : row.filename # <<".">> /\ row.filename # <<".", ".">>)
         entries == SortEntries(<<>>, [i \in DOMAIN rows |-> toSftpEntry(cwd, rows[i])])
         parent == IF cwd = <<"/">> THEN [isNull |-> TRUE, value |-> <<>>] ELSE dirnamePosix(cwd)
     IN  listing' = [listing EXCEPT !.done = TRUE, !.entries = entries,
                                    !.parentIsNull = parent.isNull, !.parent = parent.value]
  /\ UNCHANGED <<connVars, queueVars, xferVars, sftpCalls, reconnectVars, ioVars, tripVars, ensureVars>>

\* Every variable but listing as after construction.
IdleButListing ==
  /\ connections = [t \in Tabs |-> None]
  /\ conns = <<>>
  /\ nextConn = 1
  /\ calls = <<>>
  /\ log = [t \in Tabs |-> <<>>]
  /\ uploadQueue = <<>>
  /\ runningUploadIds = {}
  /\ connectedTabIds = {}
  /\ terminalTabs = {}
  /\ closedTabs = {}
  /\ uploadJobs = <<>>
  /\ activeUploadTransfers = <<>>
  /\ activeDownloadTransfers = <<>>
  /\ xfers = <<>>
  /\ sftpCalls = <<>>
  /\ reconnectAttempts = [t \in Tabs |-> 0]
  /\ reconnectTimers = [t \in Tabs |-> 0]
  /\ workspaceTabs = {}
  /\ autoReconnect = TRUE
  /\ connectPhase = [t \in Tabs |-> "idle"]
  /\ scheduled = [t \in Tabs |-> <<>>]
  /\ delayPreference = reconnectDelaySeconds
  /\ ioCalls = <<>>

\* The directories realPath answers with.
ListCwds == {<<"/">>, <<"/", "a">>, <<"/", "a", "/", "b">>}

\* The names and modes (directory 0o040755, file 0o100644, symlink
\* 0o120777) of the rows readDirectory answers with.
RowNames == {<<".">>, <<".", ".">>, <<"a">>, <<"B">>, <<"b">>, <<"a", "b">>}

RowModes == {16877, 33188, 41471}

ListRows == UNION {[1..n -> [filename : RowNames, mode : RowModes]] : n \in 0..MaxRows}

InitList ==
  /\ IdleButListing
  /\ NoTrip
  /\ NoEnsure
  /\ \E cwd \in ListCwds, rows \in ListRows :
       listing = [NoListing EXCEPT !.cwd = cwd, !.rows = rows]

NextList == ListDirectoryDone

SpecList == InitList /\ [][NextList]_vars

Kept(rows) ==
  {i \in DOMAIN rows : rows[i].filename # <<".">> /\ rows[i].filename # <<".", ".">>}

\* The name with its upper-case letters replaced by lower-case ones.
Lower(name) == [i \in DOMAIN name |-> FoldCase(name[i])]

\* Lexicographic order of two names that are already in lower case.
RECURSIVE LexLeq(_, _)
LexLeq(a, b) ==
  IF a = <<>> THEN TRUE
  ELSE IF b = <<>> THEN FALSE
  ELSE IF Head(a) = Head(b) THEN LexLeq(Tail(a), Tail(b))
  ELSE CollationRank(Head(a)) < CollationRank(Head(b))

\* C28: the entries listDirectory returns exclude `.` and `..` (and are as
\* many as the other rows), every directory comes before every
\* non-directory, within each group the names are in case-insensitive
\* order, and parent is null exactly when cwd is `/`.
C28_ListingSorted ==
  listing.done =>
    LET entries == listing.entries
    IN  /\ Len(entries) = Cardinality(Kept(listing.rows))
        /\ \A i \in DOMAIN entries : entries[i].name \notin {<<".">>, <<".", ".">>}
        /\ \A i, k \in DOMAIN entries :
             i < k =>
               /\ ~(entries[i].kind # "directory" /\ entries[k].kind = "directory")
               /\ (entries[i].kind = "directory") = (entries[k].kind = "directory")
                    => LexLeq(Lower(entries[i].name), Lower(entries[k].name))
        /\ listing.parentIsNull = (listing.cwd = <<"/">>)

\* A listing of `/` whose rows had `..`, a file before a directory and
\* names that differ in case only.
C28_Witness ==
  /\ listing.done
  /\ listing.cwd = <<"/">>
  /\ Len(listing.rows) = 3
  /\ listing.rows[1].filename = <<".", ".">>
  /\ listing.rows[2] = [filename |-> <<"b">>, mode |-> 33188]
  /\ listing.rows[3] = [filename |-> <<"B">>, mode |-> 16877]
  /\ Len(listing.entries) = 2

(***************************************************************************)
(* The permission string of one listed row, for every mode value.          *)
(***************************************************************************)
ModeValues == 0..65535

InitMode ==
  /\ IdleButListing
  /\ NoTrip
  /\ NoEnsure
  /\ \E mode \in ModeValues :
       listing = [NoListing EXCEPT !.cwd = <<"/">>,
                                   !.rows = <<[filename |-> <<"a">>, mode |-> mode]>>]

NextMode == ListDirectoryDone

SpecMode == InitMode /\ [][NextMode]_vars

\* The bit of weight mask (a power of two) is set in mode.
BitSet(mode, mask) == mode % (2 * mask) >= mask

\* The character ls -l shows for a permission bit.
PlainChar(mode, mask, char) == IF BitSet(mode, mask) THEN char ELSE "-"

\* The character ls -l shows at an execute position with its overlay bit.
ExecuteChar(mode, mask, special, lower, upper) ==
  IF BitSet(mode, special)
    THEN IF BitSet(mode, mask) THEN lower ELSE upper
    ELSE IF BitSet(mode, mask) THEN "x" ELSE "-"

\* C29: for every mode in 0..0o177777 the permission string has 10
\* characters: a file-type letter d, l or - (d for a directory, l for a
\* symbolic link), then the rwx bits of owner, group and others, with
\* setuid and setgid shown as s (execute set) or S at the owner and group
\* execute positions and the sticky bit as t or T at the others one.
C29_PermissionString ==
  listing.done /\ Len(listing.entries) = 1 =>
    LET mode == listing.rows[1].mode
        text == listing.entries[1].permissions
    IN  /\ Len(text) = 10
        /\ text[1] \in {"d", "l", "-"}
        /\ (text[1] = "d") = (mode \in 16384..20479)
        /\ (text[1] = "l") = (mode \in 40960..45055)
        /\ text[2] = PlainChar(mode, 256, "r")
        /\ text[3] = PlainChar(mode, 128, "w")
        /\ text[4] = ExecuteChar(mode, 64, 2048, "s", "S")
        /\ text[5] = PlainChar(mode, 32, "r")
        /\ text[6] = PlainChar(mode, 16, "w")
        /\ text[7] = ExecuteChar(mode, 8, 1024, "s", "S")
        /\ text[8] = PlainChar(mode, 4, "r")
        /\ text[9] = PlainChar(mode, 2, "w")
        /\ text[10] = ExecuteChar(mode, 1, 512, "t", "T")

\* A regular file with mode 0o107654 (setuid, setgid and sticky; owner
\* and others without execute, group with it) is shown as -rwSr-sr-T.
C29_Witness ==
  /\ listing.done
  /\ Len(listing.rows) = 1
  /\ listing.rows[1].mode = 36780
  /\ Len(listing.entries) = 1
  /\ listing.entries[1].permissions = <<"-", "r", "w", "S", "r", "-", "s", "r", "-", "T">>

(***************************************************************************)
(* uploadFile and downloadFile with the bytes they move, on a tab whose    *)
(* embedded connection and SFTP session are open.  files.local and         *)
(* files.remote give the regular files of the two file systems by path;    *)
(* the directories `/` and `/d` exist on both sides.                       *)
(***************************************************************************)
MaxTrips == 2

\* posixPath.basename (and basename of node:path on a POSIX host)
basename(path) ==
  LET ends == {i \in DOMAIN path : path[i] # "/"}
  IN  IF ends = {} THEN <<>>
      ELSE LET end == CHOOSE i \in ends : \A k \in ends : k <= i
               slashes == {i \in 1..end : path[i] = "/"}
               start == IF slashes = {} THEN 1
                        ELSE (CHOOSE i \in slashes : \A k \in slashes : k <= i) + 1
           IN  SubSeq(path, start, end)

normalizeLocalPathUntrimmed(pathValue) == [threw |-> pathValue = <<>>, value |-> pathValue]

normalizeLocalPath(pathValue) ==
  LET trimmed == trim(pathValue)
  IN  [threw |-> trimmed = <<>>, value |-> trimmed]

\* The paths an invocation is given.
UploadPaths == {<<"/", "a">>, <<"/", "a", " ">>}

RemoteDirectories == {<<".">>, <<"/", "d">>}

DownloadPaths == {<<"/", "b">>, <<"/", "b", " ">>}

RemotePaths == {<<"a">>, <<"a", " ">>, <<"/", "d", "/", "a">>, <<"/", "d", "/", "a", " ">>}

LocalNames == UploadPaths \cup DownloadPaths

RemoteNames == RemotePaths

\* The contents a file starts with.
Contents == {<<1>>, <<2, 1>>}

Stored(bytes) == [exists |-> TRUE, bytes |-> bytes]

Settled(status) ==
  [direction |-> copy.direction, localPath |-> copy.localPath, remote |-> copy.remote,
   status |-> status, content |-> copy.content]

Failed(direction, localPath, remote) ==
  [direction |-> direction, localPath |-> localPath, remote |-> remote, status |-> "failed",
   content |-> Absent]

\* uploadFile up to the pipe: the source is checked with stat, the remote
\* file is opened for writing, which creates or truncates it.
UploadFile(localPath, remoteDirectory) ==
  /\ ~copy.open
  /\ Len(trips) < MaxTrips
  /\ LET normalizedLocalPath == normalizeLocalPath(localPath)
         fileName == basename(normalizedLocalPath.value)
         remotePath == join(normalizeRemotePath(remoteDirectory), fileName)
     IN  IF \/ normalizedLocalPath.threw
            \/ fileName = <<>>
            \/ ~files.local[normalizedLocalPath.value].exists
           THEN /\ trips' = Append(trips, Failed("upload", localPath, remoteDirectory))
                /\ UNCHANGED <<files, copy>>
           ELSE /\ files' = [files EXCEPT !.remote[remotePath] = Stored(<<>>)]
                /\ copy' = [open |-> TRUE, direction |-> "upload", localPath |-> localPath,
                            remote |-> remoteDirectory, source |-> normalizedLocalPath.value,
                            target |-> remotePath, offset |-> 0,
                            content |-> files.local[localPath]]
                /\ UNCHANGED trips
  /\ UNCHANGED <<connVars, queueVars, xferVars, sftpVars, reconnectVars, ioVars, ensureVars>>

\* downloadFile up to the pipe: the remote file is checked with stat, the
\* local file is opened for writing, which creates or truncates it.
DownloadFile(remotePath, localPath) ==
  /\ ~copy.open
  /\ Len(trips) < MaxTrips
  /\ LET normalizedRemotePath == normalizeRemotePath(remotePath)
         normalizedLocalPath == normalizeLocalPath(localPath)
         fileName == basename(normalizedRemotePath)
     IN  IF \/ normalizedLocalPath.threw
            \/ fileName = <<>>
            \/ ~files.remote[normalizedRemotePath].exists
           THEN /\ trips' = Append(trips, Failed("download", localPath, remotePath))
                /\ UNCHANGED <<files, copy>>
           ELSE /\ files' = [files EXCEPT !.local[normalizedLocalPath.value] = Stored(<<>>)]
                /\ copy' = [open |-> TRUE, direction |-> "download", localPath |-> localPath,
                            remote |-> remotePath, source |-> normalizedRemotePath,
                            target |-> normalizedLocalPath.value, offset |-> 0,
                            content |-> files.remote[normalizedRemotePath]]
                /\ UNCHANGED trips
  /\ UNCHANGED <<connVars, queueVars, xferVars, sftpVars, reconnectVars, ioVars, ensureVars>>

SourceBytes ==
  IF copy.direction = "upload" THEN files.local[copy.source].bytes
                               ELSE files.remote[copy.source].bytes

\* readStream.pipe(writeStream): the next chunk (one byte) is read from the
\* source and written at the end of the target.
PipeChunk ==
  /\ copy.open
  /\ copy.offset < Len(SourceBytes)
  /\ LET chunk == SourceBytes[copy.offset + 1]
     IN  files' = IF copy.direction = "upload"
                    THEN [files EXCEPT !.remote[copy.target].bytes = Append(@, chunk)]
                    ELSE [files EXCEPT !.local[copy.target].bytes = Append(@, chunk)]
  /\ copy' = [copy EXCEPT !.offset = @ + 1]
  /\ UNCHANGED trips
  /\ UNCHANGED <<connVars, queueVars, xferVars, sftpVars, reconnectVars, ioVars, ensureVars>>

\* The read stream ended and the write stream emitted `finish`:
\* pipeWithProgress resolves and the transfer is reported completed.
PipeFinish ==
  /\ copy.open
  /\ copy.offset = Len(SourceBytes)
  /\ trips' = Append(trips, Settled("completed"))
  /\ copy' = NoCopy
  /\ UNCHANGED files
  /\ UNCHANGED <<connVars, queueVars, xferVars, sftpVars, reconnectVars, ioVars, ensureVars>>

\* cancelUpload or cancelDownload while the pipe is open: the streams are
\* destroyed and the catch block unlinks the target.
CancelCopy ==
  /\ copy.open
  /\ files' = IF copy.direction = "upload"
                THEN [files EXCEPT !.remote[copy.target] = Absent]
                ELSE [files EXCEPT !.local[copy.target] = Absent]
  /\ trips' = Append(trips, Settled("canceled"))
  /\ copy' = NoCopy
  /\ UNCHANGED <<connVars, queueVars, xferVars, sftpVars, reconnectVars, ioVars, ensureVars>>

\* The upload sources with one of two contents or absent, the download
\* targets absent, the remote files absent or holding older, longer data.
InitTrip ==
  /\ IdleButListing
  /\ NoEnsure
  /\ listing = NoListing
  /\ copy = NoCopy
  /\ trips = <<>>
  /\ \E sources \in [UploadPaths -> {Absent} \cup {Stored(bytes) : bytes \in Contents}],
        old \in [RemoteNames -> {Absent, Stored(<<2, 2, 2>>)}] :
       files = [local |-> [name \in LocalNames |->
                             IF name \in UploadPaths THEN sources[name] ELSE Absent],
                remote |-> old]

NextTrip ==
  \/ \E localPath \in UploadPaths, remoteDirectory \in RemoteDirectories :
       UploadFile(localPath, remoteDirectory)
  \/ \E remotePath \in RemotePaths, localPath \in DownloadPaths :
       DownloadFile(remotePath, localPath)
  \/ PipeChunk
  \/ PipeFinish
  \/ CancelCopy

SpecTrip == InitTrip /\ [][NextTrip]_vars

\* trips[i] is a completed upload of F to D and trips[i + 1] a completed
\* download of D/basename(F) that has just been settled.
RoundTrip(i) ==
  /\ ~copy.open
  /\ i + 1 = Len(trips)
  /\ trips[i].direction = "upload" /\ trips[i].status = "completed"
  /\ trips[i + 1].direction = "download" /\ trips[i + 1].status = "completed"
  /\ trips[i + 1].remote = join(trips[i].remote, basename(trips[i].localPath))

\* C30: after a completed upload of local file F to remote directory D and
\* a completed download of D/basename(F) to local path F', the file F' holds
\* the bytes F held when it was uploaded.
C30_RoundTripIdentical ==
  \A i \in DOMAIN trips :
    RoundTrip(i) => files.local[trips[i + 1].localPath] = trips[i].content

\* The round trip of paths that neither begin nor end with white space
\* returns the bytes of F.
C30_RoundTripOfTrimmedPaths ==
  \A i \in DOMAIN trips :
    /\ RoundTrip(i)
    /\ trim(trips[i].localPath) = trips[i].localPath
    /\ trim(trips[i + 1].localPath) = trips[i + 1].localPath
    /\ trim(trips[i + 1].remote) = trips[i + 1].remote
    => files.local[trips[i + 1].localPath] = trips[i].content

\* The events a step appends to the log of tab t.
NewEvents(t) == {i \in DOMAIN log'[t] : i > Len(log[t])}

\* The transport of connection c has succeeded: the embedded client is
\* ready with its shell open, the ssh process of the fallback has started.
TransportUp(connection) ==
  IF connection.mode = "ssh2"
    THEN connection.ready /\ connection.shell = "open"
    ELSE connection.ready

\* C31: status=connected is emitted for a connection only when its
\* transport has succeeded (embedded client: ready and shell opened; native
\* fallback: the ssh process has started), so that a native process that
\* fails to start is reported without a connected status before it.
C31_ConnectedOnlyAfterTransportUp ==
  [][\A t \in Tabs : \A i \in NewEvents(t) :
       log'[t][i].type = "connected"
         => /\ log'[t][i].conn \in DOMAIN conns'
            /\ TransportUp(conns'[log'[t][i].conn])]_vars

(***************************************************************************)
(* ensureRemoteDirectoryForUpload of the renderer: the directories of the  *)
(* destination are created from the top, with the per-tab cache            *)
(* ensuredRemoteDirectoriesRef.  An invocation stops at each await         *)
(* (createDirectory, listDirectory); the server answers in any order.      *)
(***************************************************************************)
MaxEnsureJobs == 2

\* pathValue.replaceAll("\\", "/")
ReplaceBackslashes(pathValue) ==
  [i \in DOMAIN pathValue |-> IF pathValue[i] = "\\" THEN "/" ELSE pathValue[i]]

normalizeRemoteDirectoryPath(pathValue) ==
  IF pathValue = <<>> THEN <<>>
  ELSE LET normalized == trim(ReplaceBackslashes(pathValue))
       IN  IF normalized = <<>> \/ normalized = <<".">> THEN <<>>
           ELSE LET hasLeadingSlash == normalized[1] = "/"
                    compacted ==
                      JoinSegments(SelectSeq(Segments(normalized, <<>>),
                                             LAMBDA segment : segment # <<>> /\ segment # <<".">>))
                IN  IF compacted = <<>>
                      THEN IF hasLeadingSlash THEN <<"/">> ELSE <<>>
                      ELSE IF hasLeadingSlash THEN <<"/">> \o compacted ELSE compacted

joinRemotePath(parentPath, name) ==
  IF parentPath = <<>> \/ parentPath = <<".">> THEN name
  ELSE IF parentPath[Len(parentPath)] = "/" THEN parentPath \o name
  ELSE parentPath \o <<"/">> \o name

cacheHasNever(cache, path) == FALSE

\* cache.has(path)
cacheHas(cache, path) == path \in cache

\* normalized.split("/").filter(Boolean)
SplitSegments(normalized) ==
  SelectSeq(Segments(normalized, <<>>), LAMBDA segment : segment # <<>>)

\* The destination directories the jobs are queued with.
EnsureDirectories ==
  {<<".">>, <<"/", "d">>, <<"/", "d", "/", "/", "e", " ">>, <<"d", "\\", "e">>}

EnsureJob(tabId, remoteDirectory) ==
  [tab |-> tabId, remoteDirectory |-> remoteDirectory, pc |-> "queued", normalized |-> <<>>,
   segments |-> <<>>, index |-> 1, currentPath |-> <<>>, nextPath |-> <<>>,
   caughtError |-> "none", refused |-> FALSE]

\* The for loop from segment job.index to its next await or to the return:
\* cached paths are skipped, the first other one is sent to createDirectory.
RECURSIVE RunSegments(_, _)
RunSegments(cache, job) ==
  IF job.index > Len(job.segments)
    THEN [cache |-> cache \cup {job.normalized}, job |-> [job EXCEPT !.pc = "done"]]
    ELSE LET segment == job.segments[job.index]
             nextPath == joinRemotePath(job.currentPath, segment)
         IN  IF cacheHas(cache, nextPath)
               THEN RunSegments(cache, [job EXCEPT !.currentPath = nextPath, !.index = @ + 1])
               ELSE [cache |-> cache, job |-> [job EXCEPT !.nextPath = nextPath, !.pc = "createDirectory"]]

\* cache.add(nextPath); currentPath = nextPath; the loop goes on.
SegmentEnsured(cache, job) ==
  RunSegments(cache \cup {job.nextPath},
              [job EXCEPT !.currentPath = job.nextPath, !.index = @ + 1])

CreateCall(j, job, cache) ==
  [job |-> j, tab |-> job.tab, parent |-> job.currentPath, path |-> job.nextPath,
   cached |-> job.nextPath \in cache, result |-> "pending"]

InstallEnsure(j, r) ==
  /\ ensuredRemoteDirectories' = [ensuredRemoteDirectories EXCEPT ![ensureJobs[j].tab] = r.cache]
  /\ ensureJobs' = [ensureJobs EXCEPT ![j] = r.job]
  /\ createCalls' = IF r.job.pc = "createDirectory"
                      THEN Append(createCalls, CreateCall(j, r.job, r.cache))
                      ELSE createCalls

\* The job body of drainUploadQueue calls ensureRemoteDirectoryForUpload:
\* from its start to the first createDirectory or to its return.
EnsureStart(j) ==
  /\ ensureJobs[j].pc = "queued"
  /\ LET normalized == normalizeRemoteDirectoryPath(ensureJobs[j].remoteDirectory)
         cache == ensuredRemoteDirectories[ensureJobs[j].tab]
         job == [ensureJobs[j] EXCEPT !.normalized = normalized,
                                      !.segments = SplitSegments(normalized),
                                      !.currentPath = IF normalized # <<>> /\ normalized[1] = "/"
                                                        THEN <<"/">> ELSE <<".">>]
     IN  IF normalized = <<>> \/ cacheHas(cache, normalized)
           THEN InstallEnsure(j, [cache |-> cache, job |-> [job EXCEPT !.pc = "done"]])
           ELSE InstallEnsure(j, RunSegments(cache, job))
  /\ UNCHANGED remoteDirectories
  /\ UNCHANGED <<connVars, queueVars, xferVars, sftpVars, reconnectVars, ioVars, tripVars>>

\* The index of the pending createDirectory call of job j.
PendingCreate(j) ==
  CHOOSE i \in DOMAIN createCalls : createCalls[i].job = j /\ createCalls[i].result = "pending"

\* createDirectory settles: the server made the directory, or it refused
\* because the path exists, or for another reason (denied).  After a
\* rejection the catch block calls listDirectory(nextPath).
CreateDirectorySettled(j, denied) ==
  /\ ensureJobs[j].pc = "createDirectory"
  /\ LET job == ensureJobs[j]
         cache == ensuredRemoteDirectories[job.tab]
         result == IF job.nextPath \in remoteDirectories THEN "exists"
                   ELSE IF denied THEN "denied" ELSE "created"
         calls1 == [createCalls EXCEPT ![PendingCreate(j)].result = result]
     IN  IF result = "created"
           THEN /\ remoteDirectories' = remoteDirectories \cup {job.nextPath}
                /\ LET r == SegmentEnsured(cache, job)
                   IN  /\ ensuredRemoteDirectories' =
                            [ensuredRemoteDirectories EXCEPT ![job.tab] = r.cache]
                       /\ ensureJobs' = [ensureJobs EXCEPT ![j] = r.job]
                       /\ createCalls' = IF r.job.pc = "createDirectory"
                                           THEN Append(calls1, CreateCall(j, r.job, r.cache))
                                           ELSE calls1
           ELSE /\ ensureJobs' = [ensureJobs EXCEPT ![j].pc = "listDirectory",
                                                    ![j].caughtError = result]
                /\ createCalls' = calls1
                /\ UNCHANGED <<remoteDirectories, ensuredRemoteDirectories>>
  /\ UNCHANGED <<connVars, queueVars, xferVars, sftpVars, reconnectVars, ioVars, tripVars>>

\* listDirectory(nextPath) settles: it resolves only for a directory that
\* exists; when it rejects, the create error is thrown again.
EnsureListSettled(j, listed) ==
  /\ ensureJobs[j].pc = "listDirectory"
  /\ LET job == ensureJobs[j]
     IN  IF listed /\ job.nextPath \in remoteDirectories
           THEN InstallEnsure(j, SegmentEnsured(ensuredRemoteDirectories[job.tab], job))
           ELSE /\ ensureJobs' = [ensureJobs EXCEPT ![j].pc = "failed", ![j].refused = ~listed]
                /\ UNCHANGED <<ensuredRemoteDirectories, createCalls>>
  /\ UNCHANGED remoteDirectories
  /\ UNCHANGED <<connVars, queueVars, xferVars, sftpVars, reconnectVars, ioVars, tripVars>>

\* The jobs, the first of tab t1 and the others of either tab, for any of
\* the directories; `/d` may exist on the server already.
InitEnsure ==
  /\ IdleButListing
  /\ listing = NoListing
  /\ NoTrip
  /\ ensuredRemoteDirectories = [t \in Tabs |-> {}]
  /\ createCalls = <<>>
  /\ remoteDirectories \in {{}, {<<"/", "d">>}}
  /\ \E jobs \in [1..MaxEnsureJobs -> Tabs \X EnsureDirectories] :
       /\ jobs[1][1] = "t1"
       /\ ensureJobs = [j \in 1..MaxEnsureJobs |-> EnsureJob(jobs[j][1], jobs[j][2])]

NextEnsure ==
  \/ \E j \in DOMAIN ensureJobs : EnsureStart(j)
  \/ \E j \in DOMAIN ensureJobs, denied \in BOOLEAN : CreateDirectorySettled(j, denied)
  \/ \E j \in DOMAIN ensureJobs, listed \in BOOLEAN : EnsureListSettled(j, listed)

SpecEnsure == InitEnsure /\ [][NextEnsure]_vars

\* The proper ancestors of a path: its prefixes that end before a slash.
Ancestors(path) ==
  {SubSeq(path, 1, i - 1) : i \in {k \in 2..Len(path) : path[k] = "/"}}

EnsureSettled(j) == ensureJobs[j].pc \in {"done", "failed"}

\* The last createDirectory call of job j.
LastCreate(calls_, j) ==
  LET mine == {i \in DOMAIN calls_ : calls_[i].job = j}
  IN  calls_[CHOOSE i \in mine : \A k \in mine : k <= i]

\* C32: ensureRemoteDirectoryForUpload creates the missing ancestors from
\* the top (a path is sent to createDirectory only with all its ancestors
\* ensured, and after the shorter paths of the same job), never calls
\* createDirectory for a path in the tab's cache, goes on after a failed
\* create only when the path exists and was listed, otherwise fails with
\* the create error and leaves the cache alone; two jobs of a tab that
\* ensure the same directory both succeed unless the server refuses.
C32_EnsureRemoteDirectory ==
  [][/\ \A i \in DOMAIN createCalls' :
          /\ ~createCalls'[i].cached
          /\ i > Len(createCalls)
               => Ancestors(createCalls'[i].path) \subseteq
                    ensuredRemoteDirectories'[createCalls'[i].tab]
          /\ \A k \in DOMAIN createCalls' :
               (i < k /\ createCalls'[i].job = createCalls'[k].job)
                 => createCalls'[i].path \in Ancestors(createCalls'[k].path)
     /\ \A j \in DOMAIN ensureJobs :
          /\ (ensureJobs[j].pc = "listDirectory"
                /\ ensureJobs'[j].pc \notin {"listDirectory", "failed"})
               => /\ ensureJobs[j].nextPath \in remoteDirectories
                  /\ ensureJobs[j].nextPath \in ensuredRemoteDirectories'[ensureJobs[j].tab]
          /\ (ensureJobs[j].pc # "failed" /\ ensureJobs'[j].pc = "failed")
               => /\ ensuredRemoteDirectories' = ensuredRemoteDirectories
                  /\ ensureJobs'[j].caughtError = LastCreate(createCalls', j).result
                  /\ ensureJobs'[j].caughtError \in {"exists", "denied"}
          /\ (ensureJobs[j].pc = "createDirectory" /\ ensureJobs'[j].pc = "listDirectory")
               => ensuredRemoteDirectories' = ensuredRemoteDirectories
     /\ \A j, k \in DOMAIN ensureJobs' :
          (/\ j # k
           /\ ensureJobs'[j].tab = ensureJobs'[k].tab
           /\ ensureJobs'[j].remoteDirectory = ensureJobs'[k].remoteDirectory
           /\ ensureJobs'[j].pc \in {"done", "failed"}
           /\ ensureJobs'[k].pc \in {"done", "failed"}
           /\ \A x \in {j, k} : ensureJobs'[x].caughtError # "denied" /\ ~ensureJobs'[x].refused)
            => ensureJobs'[j].pc = "done" /\ ensureJobs'[k].pc = "done"]_vars

\* Two jobs of one tab ensured `/d/e` at the same time: both called
\* createDirectory for `/d`, one call made it and the other found it
\* existing, and both jobs are done.
C32_Witness ==
  /\ Len(ensureJobs) = 2
  /\ ensureJobs[1].tab = ensureJobs[2].tab
  /\ ensureJobs[1].normalized = <<"/", "d", "/", "e">>
  /\ ensureJobs[2].normalized = <<"/", "d", "/", "e">>
  /\ ensureJobs[1].pc = "done" /\ ensureJobs[2].pc = "done"
  /\ \E i, k \in DOMAIN createCalls :
       /\ createCalls[i].path = <<"/", "d">> /\ createCalls[i].result = "created"
       /\ createCalls[k].path = <<"/", "d">> /\ createCalls[k].result = "exists"
       /\ createCalls[i].job # createCalls[k].job

\* The rmdir and unlink requests of an invocation.
DeleteRequests(call) ==
  {r \in DOMAIN call.requests : call.requests[r].kind \in {"rmdir", "unlink"}}

\* C33: a deletePath sends, besides the opening of the sub-channel, one
\* request only: rmdir of the given path when kind is directory, unlink of
\* the given path for every other kind; no other path is removed, and a
\* resolved call has sent that request.
C33_DeleteOnlyGivenPath ==
  \A i \in DOMAIN sftpCalls :
    LET call == sftpCalls[i]
    IN  call.op = "deletePath" =>
          /\ Cardinality(DeleteRequests(call)) <= 1
          /\ call.result = "resolved" => Cardinality(DeleteRequests(call)) = 1
          /\ \A r \in DOMAIN call.requests :
               /\ call.requests[r].kind \in {"sftp", "rmdir", "unlink"}
               /\ call.requests[r].kind = "rmdir" => call.kind = "directory"
               /\ call.requests[r].kind = "unlink" => call.kind # "directory"
               /\ r \in DeleteRequests(call) => call.requests[r].path = call.path

\* Connection c is not the registered connection of its tab, and a newer
\* one is.
Replaced(c) ==
  /\ connections[conns[c].tab] # None
  /\ connections[conns[c].tab] # c

\* C34: a shell close event or a shell-open error of a connection that has
\* been replaced as the registered connection of its tab leaves the newer
\* connection registered and open, and sends no event to the tab.
C34_StaleShellEventsIgnored ==
  [][\A c \in DOMAIN conns :
       (Replaced(c) /\ (ShellClose(c) \/ ShellCallback(c, TRUE)))
         => LET t == conns[c].tab
                newer == connections[t]
            IN  /\ connections'[t] = newer
                /\ newer \in DOMAIN conns'
                /\ conns'[newer] = conns[newer]
                /\ log'[t] = log[t]]_vars

\* C35: an upload that was asked to cancel after it left the queue and
\* before uploadFile registered it (here: while uploadFile awaits the stat of
\* the local file) ends canceled, or failed when it fails on its own, its
\* file not transferred: it never gets a `completed` event.
C35_EarlyCancelEndsCanceled ==
  \A j \in DOMAIN xfers :
    xfers[j].cancelMissed
      => \A i \in DOMAIN xfers[j].events : xfers[j].events[i].status # "completed"

(***************************************************************************)
(* C36: a transfer has a `completed` event only when its destination write *)
(* stream has emitted "finish"; a destination that closes without          *)
(* finishing and without an error never leads to `completed`.              *)
(***************************************************************************)
C36_CompletedOnlyAfterFinish ==
  \A j \in DOMAIN xfers :
    (\E i \in DOMAIN xfers[j].events : xfers[j].events[i].status = "completed")
      => xfers[j].writeStream = "ended"

\* The operations whose ensureSftp has asked connection c for a sub-channel
\* and has not been refused: the channel is being opened or is open.
ChannelOpens(c) ==
  {i \in DOMAIN sftpCalls :
     /\ sftpCalls[i].conn = c
     /\ \E k \in DOMAIN sftpCalls[i].requests : sftpCalls[i].requests[k].kind = "sftp"
     /\ sftpCalls[i].error # "sftp"}

(***************************************************************************)
(* C37: for one connection the file-transfer sub-channel is opened at most *)
(* once; operations that start while no sub-channel exists share a single  *)
(* channel, so that no opened channel is left unreferenced.                *)
(***************************************************************************)
C37_SubChannelOpenedOnce ==
  \A c \in DOMAIN conns : Cardinality(ChannelOpens(c)) <= 1

Queued(queue) == {queue[i] : i \in DOMAIN queue}

PositionIn(queue, j) == CHOOSE i \in DOMAIN queue : queue[i] = j

(***************************************************************************)
(* C39: drainUploadQueue never starts a job whose tab is not in the        *)
(* connected set at that moment; such a job stays in the queue unchanged   *)
(* and keeps its position relative to the other queued jobs.               *)
(***************************************************************************)
C39_DisconnectedJobsStayQueued ==
  [][/\ \A j \in DOMAIN uploadJobs :
          (uploadJobs[j].phase = "queued" /\ uploadJobs'[j].phase = "ensureRemoteDirectory")
            => /\ uploadJobs[j].tab \in connectedTabIds'
               /\ j \in runningUploadIds'
               /\ j \notin Queued(uploadQueue')
     /\ \A j \in Queued(uploadQueue) \cap Queued(uploadQueue') :
          uploadJobs'[j] = uploadJobs[j]
     /\ \A a, b \in Queued(uploadQueue) \cap Queued(uploadQueue') :
          PositionIn(uploadQueue, a) < PositionIn(uploadQueue, b)
            => PositionIn(uploadQueue', a) < PositionIn(uploadQueue', b)]_vars

\* C39 witness: a job of a connected tab has been started although a job
\* enqueued before it, whose tab is not connected, is still in the queue.
C39_Witness ==
  \E i \in DOMAIN uploadQueue, j \in DOMAIN uploadJobs :
    /\ uploadQueue[i] < j
    /\ uploadJobs[uploadQueue[i]].tab \notin connectedTabIds
    /\ uploadJobs[uploadQueue[i]].phase = "queued"
    /\ uploadJobs[j].phase = "ensureRemoteDirectory"
    /\ uploadJobs[j].tab \in connectedTabIds

\* The promise that drainUploadQueue has started for job j settles one of
\* its awaits.
JobPromiseStep(j) ==
  /\ j \in DOMAIN uploadJobs
  /\ \/ \E ok \in BOOLEAN : EnsureRemoteDirectoryDone(j, ok)
     \/ \E s \in {"completed", "failed", "canceled"} : UploadFileSettled(j, s)

\* The upload queue under the assumption that the promises of started jobs
\* settle: ensureRemoteDirectoryForUpload and sftpApi.uploadFile resolve or
\* reject, and the .catch / .finally callbacks then run.
SpecQueueFair ==
  /\ SpecQueue
  /\ \A j \in 1..MaxJobs : WF_vars(JobPromiseStep(j))

WaitsConnected(j) ==
  /\ j \in DOMAIN uploadJobs
  /\ uploadJobs[j].phase = "queued"
  /\ uploadJobs[j].tab \in connectedTabIds

(***************************************************************************)
(* C38: provided running uploads settle, every queued upload job whose tab *)
(* is connected is eventually started (or leaves the queue by a cancel, or *)
(* its tab stops being connected): every settled job frees its slot and    *)
(* drains the queue again, and queued jobs of disconnected tabs ahead in   *)
(* the queue do not block it.                                              *)
(***************************************************************************)
C38_ConnectedQueuedJobStarts ==
  \A j \in 1..MaxJobs : WaitsConnected(j) ~> ~WaitsConnected(j)

\* C38 witness: the third job, whose tab is connected, has been started
\* after a running job settled, while a job of a disconnected tab that was
\* enqueued before it is still in the queue.
C38_Witness ==
  \E i \in DOMAIN uploadQueue, j, k \in DOMAIN uploadJobs :
    /\ uploadQueue[i] < j
    /\ uploadJobs[uploadQueue[i]].tab \notin connectedTabIds
    /\ uploadJobs[j].phase \in {"ensureRemoteDirectory", "uploadFile"}
    /\ uploadJobs[k].phase = "settled"
    /\ uploadJobs[k].ui \in {"completed", "failed"}
    /\ k < j

Next ==
  \/ \E t \in Tabs : ConnectCall(t, TabSession(t))
  \/ \E k \in DOMAIN calls, stored \in BOOLEAN : ConnectGetById(k, stored)
  \/ \E k \in DOMAIN calls, ok \in BOOLEAN : ConnectBuildConfig(k, ok)
  \/ \E t \in Tabs : Close(t)
  \/ \E c \in DOMAIN conns : ClientReady(c)
  \/ \E c \in DOMAIN conns, e \in BOOLEAN : ShellCallback(c, e)
  \/ \E c \in DOMAIN conns : ShellClose(c)
  \/ \E c \in DOMAIN conns, m \in ErrorMessages, ok \in BOOLEAN : ClientError(c, m, ok)
  \/ \E c \in DOMAIN conns : ClientClose(c)
  \/ \E c \in DOMAIN conns : ProcessSpawn(c)
  \/ \E c \in DOMAIN conns : ProcessError(c)
  \/ \E c \in DOMAIN conns, x \in {"ok", "failed"} : ProcessClose(c, x)

Spec == Init /\ [][Next]_vars
====
